---- MODULE Spec2Model ----
(***************************************************************************)
(* A model of DataProcessor (src/data_processor.py): the pipeline that     *)
(* load_and_clean_data runs on one sheet of a workbook,                    *)
(*   _handle_oecd_structure -> _clean_data -> _validate_data,              *)
(* on tables whose cells and headers are Python values (Spec, and          *)
(* ClassifySpec on tall sheets); the choice of the sheet, _find_main_sheet *)
(* (SheetSpec); and the two summaries of a returned table,                 *)
(* get_summary_stats and calculate_trends (StatsSpec).                     *)
(*                                                                         *)
(* Text is a sequence of one-character strings, so that strip(), lower(),  *)
(* split(), re.sub and str() are computed character by character.          *)
(* A cell is a record: [k |-> "null"] (NaN / None), [k |-> "int", v |-> n],*)
(* [k |-> "float", v |-> n] (the float n.0) or [k |-> "str", s |-> text].  *)
(* A frame is [cols, dt, rows]: the column labels, the dtype of each       *)
(* column ("int64", "float64", "object") and the rows of cells.            *)
(***************************************************************************)
EXTENDS Integers, Sequences, FiniteSets, TLC

VARIABLES input, df, pc, route, failure, warnings,
          sheet_names, main_sheet, stats, trends

vars == <<input, df, pc, route, failure, warnings,
          sheet_names, main_sheet, stats, trends>>

-----------------------------------------------------------------------------
(* Characters, in code-point order (Python compares str by code point).    *)

Chars ==
    << " ", "-", ".", "/",
       "0", "1", "2", "3", "4", "5", "6", "7", "8", "9",
       "A", "B", "C", "D", "E", "F", "G", "H", "I", "J", "K", "L", "M",
       "N", "O", "P", "Q", "R", "S", "T", "U", "V", "W", "X", "Y", "Z",
       "_",
       "a", "b", "c", "d", "e", "f", "g", "h", "i", "j", "k", "l", "m",
       "n", "o", "p", "q", "r", "s", "t", "u", "v", "w", "x", "y", "z",
       "~" >>

CharSet == {Chars[i] : i \in 1..Len(Chars)}

(* "~" stands for the middle dot U+00B7 of the indentation pattern (line 191);
   like it, it sorts after every letter. *)
MidDot == "~"

Code == [c \in CharSet |-> CHOOSE i \in 1..Len(Chars) : Chars[i] = c]

UpperSet == {Chars[i] : i \in 15..40}

Digits == <<"0", "1", "2", "3", "4", "5", "6", "7", "8", "9">>

DigitSet == {Digits[i] : i \in 1..10}

DigitVal == [c \in DigitSet |-> (CHOOSE i \in 1..10 : Digits[i] = c) - 1]

IsDigit(c) == c \in DigitSet

IsSpace(c) == c = " "

(* str.lower() and str.upper(), one character *)
LowerCh(c) == IF c \in UpperSet THEN Chars[Code[c] + 27] ELSE c

UpperCh(c) == IF c \in CharSet /\ Code[c] >= 42 /\ Code[c] <= 67
              THEN Chars[Code[c] - 27] ELSE c

Lower(s) == [i \in 1..Len(s) |-> LowerCh(s[i])]

Upper(s) == [i \in 1..Len(s) |-> UpperCh(s[i])]

(* sub in s *)
Contains(s, sub) ==
    \E i \in 0..(Len(s) - Len(sub)) : SubSeq(s, i + 1, i + Len(sub)) = sub

RECURSIVE LStrip(_)
LStrip(s) == IF s # <<>> /\ IsSpace(Head(s)) THEN LStrip(Tail(s)) ELSE s

RECURSIVE RStrip(_)
RStrip(s) == IF s # <<>> /\ IsSpace(s[Len(s)])
             THEN RStrip(SubSeq(s, 1, Len(s) - 1)) ELSE s

(* str.strip() *)
Strip(s) == RStrip(LStrip(s))

(* s.split(ch)[0]: the text before the first ch, the whole text without one *)
SplitFirst(s, ch) ==
    IF \E i \in 1..Len(s) : s[i] = ch
    THEN SubSeq(s, 1, (CHOOSE i \in 1..Len(s) :
                          s[i] = ch /\ \A j \in 1..(i - 1) : s[j] # ch) - 1)
    ELSE s

(* re.sub(r'[^0-9]', '', s) *)
DigitsOnly(s) == SelectSeq(s, IsDigit)

RECURSIVE DigitsValue(_)
DigitsValue(s) ==
    IF s = <<>> THEN 0
    ELSE 10 * DigitsValue(SubSeq(s, 1, Len(s) - 1)) + DigitVal[s[Len(s)]]

RECURSIVE NatToStr(_)
NatToStr(n) ==
    IF n < 10 THEN <<Digits[n + 1]>>
    ELSE NatToStr(n \div 10) \o <<Digits[(n % 10) + 1]>>

(* str(n) of a Python int *)
IntToStr(n) == IF n < 0 THEN <<"-">> \o NatToStr(0 - n) ELSE NatToStr(n)

(* a < b for Python str *)
RECURSIVE StrLess(_, _)
StrLess(a, b) ==
    IF b = <<>> THEN FALSE
    ELSE IF a = <<>> THEN TRUE
    ELSE IF Head(a) = Head(b) THEN StrLess(Tail(a), Tail(b))
    ELSE Code[Head(a)] < Code[Head(b)]

StrLeq(a, b) == a = b \/ StrLess(a, b)

-----------------------------------------------------------------------------
(* Cells *)

Null == [k |-> "null", v |-> 0, s |-> <<>>]

IntCell(n) == [k |-> "int", v |-> n, s |-> <<>>]

FloatCell(n) == [k |-> "float", v |-> n, s |-> <<>>]

StrCell(t) == [k |-> "str", v |-> 0, s |-> t]

IsNull(c) == c.k = "null"

IsNum(c) == c.k \in {"int", "float"}

(* str(value): NaN prints as nan, the float n.0 as "n.0" *)
StrOf(c) ==
    CASE c.k = "null" -> <<"n", "a", "n">>
      [] c.k = "int" -> IntToStr(c.v)
      [] c.k = "float" -> IntToStr(c.v) \o <<".", "0">>
      [] OTHER -> c.s

(* text that Python's int() / float() and pandas' to_numeric read as a whole
   number: digits, with an optional sign *)
IsIntText(t) ==
    LET u == IF t # <<>> /\ Head(t) = "-" THEN Tail(t) ELSE t
    IN  u # <<>> /\ \A i \in 1..Len(u) : IsDigit(u[i])

IntTextValue(t) ==
    IF Head(t) = "-" THEN 0 - DigitsValue(Tail(t)) ELSE DigitsValue(t)

-----------------------------------------------------------------------------
(* Frames *)

NRows(f) == Len(f.rows)

NCols(f) == Len(f.cols)

Column(f, j) == [i \in 1..NRows(f) |-> f.rows[i][j]]

(* the positions of the columns labelled name *)
Positions(f, name) == {j \in 1..NCols(f) : f.cols[j] = name}

HasColumn(f, name) == Positions(f, name) # {}

Pos(f, name) == CHOOSE j \in Positions(f, name) : TRUE

SeqOfSet(n, keep) ==
    LET F[i \in 0..n] ==
            IF i = 0 THEN <<>>
            ELSE IF i \in keep THEN Append(F[i - 1], i) ELSE F[i - 1]
    IN  F[n]

(* df[mask]: the rows at the positions of keep, in order *)
KeepRows(f, keep) ==
    LET idx == SeqOfSet(NRows(f), keep)
    IN  [f EXCEPT !.rows = [i \in 1..Len(idx) |-> f.rows[idx[i]]]]

KeepCols(f, keep) ==
    LET idx == SeqOfSet(NCols(f), keep)
    IN  [cols |-> [j \in 1..Len(idx) |-> f.cols[idx[j]]],
         dt   |-> [j \in 1..Len(idx) |-> f.dt[idx[j]]],
         rows |-> [i \in 1..NRows(f) |->
                      [j \in 1..Len(idx) |-> f.rows[i][idx[j]]]]]

(* df[name] = cells, with the dtype of the new column *)
SetColumn(f, j, cells, dtype) ==
    [f EXCEPT !.dt[j] = dtype,
              !.rows = [i \in 1..NRows(f) |-> [f.rows[i] EXCEPT ![j] = cells[i]]]]

(* df.dropna(subset=[name]) *)
DropNaIn(f, j) == KeepRows(f, {i \in 1..NRows(f) : ~IsNull(f.rows[i][j])})

(* The dtype pandas gives a column of cells: object with any text, int64 for
   whole numbers alone, float64 once a number is missing or a float. *)
InferDtype(cells) ==
    IF \E i \in 1..Len(cells) : cells[i].k = "str" THEN "object"
    ELSE IF cells # <<>> /\ \A i \in 1..Len(cells) : cells[i].k = "int" THEN "int64"
    ELSE IF cells = <<>> THEN "object"
    ELSE "float64"

(* a cell as stored in a column of that dtype: a float64 column holds floats *)
Stored(c, dtype) ==
    IF dtype = "float64" /\ c.k = "int" THEN FloatCell(c.v) ELSE c

(* pd.read_excel(..., header=0) of a sheet: the first row labels the columns,
   each column gets its dtype *)
ReadExcel(cols, rows) ==
    LET raw == [cols |-> cols, dt |-> [j \in 1..Len(cols) |-> "object"], rows |-> rows]
        dts == [j \in 1..Len(cols) |-> InferDtype(Column(raw, j))]
    IN  [cols |-> cols, dt |-> dts,
         rows |-> [i \in 1..Len(rows) |->
                      [j \in 1..Len(cols) |-> Stored(rows[i][j], dts[j])]]]

-----------------------------------------------------------------------------
(* __init__ *)

TxtCountry == <<"C", "o", "u", "n", "t", "r", "y">>

TxtYear == <<"Y", "e", "a", "r">>

TxtEmissions == <<"E", "m", "i", "s", "s", "i", "o", "n", "s">>

required_columns == <<TxtCountry, TxtYear, TxtEmissions>>

CountrySynonyms ==
    << <<"C", "o", "u", "n", "t", "r", "y">>,
       <<"C", "O", "U", "N", "T", "R", "Y">>,
       <<"C", "o", "u", "n", "t", "r", "i", "e", "s">>,
       <<"C", "O", "U", "N", "T", "R", "I", "E", "S">>,
       <<"C", "o", "u", "n", "t", "r", "y", " ", "N", "a", "m", "e">>,
       <<"R", "e", "g", "i", "o", "n">>,
       <<"R", "E", "G", "I", "O", "N">>,
       <<"L", "o", "c", "a", "t", "i", "o", "n">>,
       <<"L", "O", "C", "A", "T", "I", "O", "N">>,
       <<"R", "e", "f", "e", "r", "e", "n", "c", "e", " ", "a", "r", "e", "a">>,
       <<"R", "E", "F", "E", "R", "E", "N", "C", "E", "_", "A", "R", "E", "A">>,
       <<"R", "E", "F", "_", "A", "R", "E", "A">>,
       <<"R", "e", "f", "e", "r", "e", "n", "c", "e", " ", "A", "r", "e", "a">> >>

YearSynonyms ==
    << <<"Y", "e", "a", "r">>,
       <<"Y", "E", "A", "R">>,
       <<"T", "i", "m", "e">>,
       <<"T", "I", "M", "E">>,
       <<"P", "e", "r", "i", "o", "d">>,
       <<"D", "a", "t", "e">>,
       <<"T", "I", "M", "E", "_", "P", "E", "R", "I", "O", "D">>,
       <<"T", "i", "m", "e", " ", "p", "e", "r", "i", "o", "d">>,
       <<"T", "I", "M", "E", "_", "P", "E", "R", "I", "O", "D">>,
       <<"T", "i", "m", "e", " ", "P", "e", "r", "i", "o", "d">>,
       <<"T", "I", "M", "E", " ", "P", "E", "R", "I", "O", "D">> >>

EmissionsSynonyms ==
    << <<"E", "m", "i", "s", "s", "i", "o", "n", "s">>,
       <<"E", "M", "I", "S", "S", "I", "O", "N", "S">>,
       <<"C", "O", "2">>,
       <<"C", "O", "2", "_", "E", "M", "I", "S", "S", "I", "O", "N", "S">>,
       <<"V", "a", "l", "u", "e">>,
       <<"V", "A", "L", "U", "E">>,
       <<"T", "o", "n", "n", "e", "s">>,
       <<"M", "t", " ", "C", "O", "2">>,
       <<"C", "O", "2", " ", "E", "m", "i", "s", "s", "i", "o", "n", "s">>,
       <<"C", "a", "r", "b", "o", "n", " ", "E", "m", "i", "s", "s", "i", "o", "n", "s">>,
       <<"E", "m", "i", "s", "s", "i", "o", "n">>,
       <<"O", "B", "S", "_", "V", "A", "L", "U", "E">>,
       <<"O", "b", "s", " ", "V", "a", "l", "u", "e">>,
       <<"O", "b", "s", "e", "r", "v", "a", "t", "i", "o", "n", " ", "V", "a", "l", "u", "e">> >>


-----------------------------------------------------------------------------
(* _find_main_sheet (lines 62-73) *)

priority_keywords ==
    << <<"t", "a", "b", "l", "e">>,
       <<"d", "a", "t", "a">>,
       <<"e", "m", "i", "s", "s", "i", "o", "n", "s">>,
       <<"m", "a", "r", "i", "t", "i", "m", "e">>,
       <<"t", "r", "a", "n", "s", "p", "o", "r", "t">>,
       <<"c", "o", "2">>,
       <<"s", "h", "e", "e", "t", "1">> >>

(* keyword.lower() in sheet.lower() (line 69) *)
SheetHasKeyword(sheet, keyword) == Contains(Lower(sheet), Lower(keyword))

(* the keywords a name contains, as positions in priority_keywords *)
KeywordsIn(sheet) ==
    {k \in 1..Len(priority_keywords) : SheetHasKeyword(sheet, priority_keywords[k])}

(* variant: the two loops of lines 67-68 the other way round (for each sheet,
   for each keyword) *)
find_main_sheet_by_sheet_order(names) ==
    LET hits == {i \in 1..Len(names) : KeywordsIn(names[i]) # {}}
    IN  IF hits = {} THEN names[1]
        ELSE names[CHOOSE i \in hits : \A h \in hits : i <= h]

(* the loops of lines 67-70: keyword by keyword, sheet by sheet; line 73 when
   they end without a return *)
find_main_sheet(names) ==
    LET Scan[k \in 1..(Len(priority_keywords) + 1)] ==
            IF k > Len(priority_keywords) THEN names[1]
            ELSE LET with == SelectSeq(names,
                                 LAMBDA sheet : SheetHasKeyword(sheet, priority_keywords[k]))
                 IN  IF with # <<>> THEN Head(with) ELSE Scan[k + 1]
    IN  Scan[1]

(* line 73 on an empty list: IndexError *)
find_main_sheet_raises(names) == names = <<>>

-----------------------------------------------------------------------------
(* _map_columns (lines 289-315) *)

ExactIn(syns, t) == \E i \in 1..Len(syns) : Lower(syns[i]) = Lower(t)

PartIn(syns, t) == \E i \in 1..Len(syns) : Contains(Lower(t), Lower(syns[i]))

(* variant: without the partial match of lines 309-311 *)
MappedNameExactOnly(col) ==
    LET col_str == Strip(col)
    IN  IF ExactIn(CountrySynonyms, col_str) THEN TxtCountry
        ELSE IF ExactIn(YearSynonyms, col_str) THEN TxtYear
        ELSE IF ExactIn(EmissionsSynonyms, col_str) THEN TxtEmissions
        ELSE col

(* the name one column gets: the first rule that matches, else its own *)
MappedName(col) ==
    LET col_str == Strip(col)
    IN  IF ExactIn(CountrySynonyms, col_str) THEN TxtCountry
        ELSE IF ExactIn(YearSynonyms, col_str) THEN TxtYear
        ELSE IF ExactIn(EmissionsSynonyms, col_str) THEN TxtEmissions
        ELSE IF PartIn(EmissionsSynonyms, col_str) THEN TxtEmissions
        ELSE col

map_columns(f) == [f EXCEPT !.cols = [j \in 1..NCols(f) |-> MappedName(f.cols[j])]]

-----------------------------------------------------------------------------
(* _parse_time_period (lines 317-349), one value *)

(* pd.to_numeric(text of digits, errors='coerce'): no digits give NaN *)
ToNumericDigits(t) == IF t = <<>> THEN Null ELSE IntCell(DigitsValue(t))

(* variant: every format handled like a plain year (digits of the whole text) *)
ParsePeriodValuePlain(value) == ToNumericDigits(DigitsOnly(Strip(StrOf(value))))

(* variant: without the branch of lines 333-337 *)
ParsePeriodValueDashOnly(value) ==
    LET str_value == Strip(StrOf(value))
    IN  IF Contains(str_value, <<"-">>)
        THEN ToNumericDigits(DigitsOnly(SplitFirst(str_value, "-")))
        ELSE ToNumericDigits(DigitsOnly(str_value))

ParsePeriodValue(value) ==
    LET str_value == Strip(StrOf(value))
    IN  IF Contains(str_value, <<"-">>)
        THEN ToNumericDigits(DigitsOnly(SplitFirst(str_value, "-")))
        ELSE IF Contains(Upper(str_value), <<"M">>)
        THEN ToNumericDigits(DigitsOnly(SplitFirst(Upper(str_value), "M")))
        ELSE ToNumericDigits(DigitsOnly(str_value))

parse_time_period(cells) == [i \in 1..Len(cells) |-> ParsePeriodValue(cells[i])]

-----------------------------------------------------------------------------
(* _clean_data (lines 243-287) *)

HasRequired(f) == \A i \in 1..Len(required_columns) : HasColumn(f, required_columns[i])

(* df.dropna(how='all').dropna(axis=1, how='all'): the rows with a value, then
   the columns with a value in the rows that are left (none, if no row is) *)
DropEmpty(f) ==
    LET g == KeepRows(f, {i \in 1..NRows(f) : \E j \in 1..NCols(f) : ~IsNull(f.rows[i][j])})
    IN  KeepCols(g, {j \in 1..NCols(g) : \E i \in 1..NRows(g) : ~IsNull(g.rows[i][j])})

(* lines 253-256 *)
CleanCountry(f) ==
    LET j == Pos(f, TxtCountry)
        g == SetColumn(f, j, [i \in 1..NRows(f) |-> StrCell(Strip(StrOf(f.rows[i][j])))],
                       "object")
    IN  KeepRows(g, {i \in 1..NRows(g) :
                        g.rows[i][j].s # <<"n", "a", "n">> /\ g.rows[i][j].s # <<>>})

(* lines 259-264: a column that is not of integer dtype goes through the
   period parser and loses the rows it could not parse *)
CleanYear(f) ==
    LET j == Pos(f, TxtYear)
    IN  IF f.dt[j] = "int64" THEN f
        ELSE LET g == SetColumn(f, j, parse_time_period(Column(f, j)), "float64")
             IN  [DropNaIn(g, j) EXCEPT !.dt[j] = "int64"]

(* pd.to_numeric(value, errors='coerce') *)
ToNumeric(c) ==
    IF c.k = "str"
    THEN IF IsIntText(Strip(c.s)) THEN IntCell(IntTextValue(Strip(c.s))) ELSE Null
    ELSE c

(* variant: the filter of line 271 left out *)
CleanEmissionsKeepNegative(f) ==
    LET j == Pos(f, TxtEmissions)
        numeric == [i \in 1..NRows(f) |-> ToNumeric(f.rows[i][j])]
        dtype == InferDtype(numeric)
        cells == [i \in 1..NRows(f) |-> Stored(numeric[i], dtype)]
    IN  DropNaIn(SetColumn(f, j, cells, dtype), j)

(* lines 267-271 *)
CleanEmissions(f) ==
    LET j == Pos(f, TxtEmissions)
        numeric == [i \in 1..NRows(f) |-> ToNumeric(f.rows[i][j])]
        dtype == InferDtype(numeric)
        cells == [i \in 1..NRows(f) |-> Stored(numeric[i], dtype)]
        g == DropNaIn(SetColumn(f, j, cells, dtype), j)
    IN  KeepRows(g, {i \in 1..NRows(g) : g.rows[i][j].v >= 0})

(* variant: line 275 followed by drop_duplicates(subset=['Country', 'Year']),
   which keeps the first record of each pair *)
DropMissingRequiredAndDuplicates(f) ==
    LET g == IF HasRequired(f)
             THEN KeepRows(f, {i \in 1..NRows(f) :
                                 \A k \in 1..Len(required_columns) :
                                     ~IsNull(f.rows[i][Pos(f, required_columns[k])])})
             ELSE f
        jc == Pos(g, TxtCountry)
        jy == Pos(g, TxtYear)
    IN  IF HasColumn(g, TxtCountry) /\ HasColumn(g, TxtYear)
        THEN KeepRows(g, {i \in 1..NRows(g) :
                            \A h \in 1..(i - 1) :
                                g.rows[h][jc] # g.rows[i][jc] \/ g.rows[h][jy] # g.rows[i][jy]})
        ELSE g

(* lines 274-275 *)
DropMissingRequired(f) ==
    IF HasRequired(f)
    THEN KeepRows(f, {i \in 1..NRows(f) :
                        \A k \in 1..Len(required_columns) :
                            ~IsNull(f.rows[i][Pos(f, required_columns[k])])})
    ELSE f

(* sort_cols (lines 278-283) *)
SortCols(f) ==
    (IF HasColumn(f, TxtCountry) THEN <<TxtCountry>> ELSE <<>>)
    \o (IF HasColumn(f, TxtYear) THEN <<TxtYear>> ELSE <<>>)

(* the order of two values of one column: text by code point, numbers by value *)
ValueLess(c1, c2) == IF c1.k = "str" THEN StrLess(c1.s, c2.s) ELSE c1.v < c2.v

(* r1 sorts strictly before r2 under the keys: the first key on which they
   differ decides *)
SortsBefore(f, keys, r1, r2) ==
    LET differ == {k \in 1..Len(keys) : r1[Pos(f, keys[k])] # r2[Pos(f, keys[k])]}
        first == CHOOSE k \in differ : \A h \in differ : k <= h
    IN  differ # {} /\ ValueLess(r1[Pos(f, keys[first])], r2[Pos(f, keys[first])])

(* df.sort_values(keys): rows that compare equal keep their order *)
SortBy(f, keys) ==
    LET n == NRows(f)
        Ins(sorted, r) ==
            LET k == Cardinality({i \in 1..Len(sorted) : ~SortsBefore(f, keys, r, sorted[i])})
            IN  SubSeq(sorted, 1, k) \o <<r>> \o SubSeq(sorted, k + 1, Len(sorted))
        F[i \in 0..n] == IF i = 0 THEN <<>> ELSE Ins(F[i - 1], f.rows[i])
    IN  [f EXCEPT !.rows = F[n]]

(* variant: sort_cols built in the order Year, Country *)
SortValuesYearFirst(f) ==
    SortBy(f, (IF HasColumn(f, TxtYear) THEN <<TxtYear>> ELSE <<>>)
              \o (IF HasColumn(f, TxtCountry) THEN <<TxtCountry>> ELSE <<>>))

(* lines 284-285 *)
SortValues(f) == IF SortCols(f) # <<>> THEN SortBy(f, SortCols(f)) ELSE f

(* A canonical name that labels two columns makes df[name] a DataFrame: the
   Country cleaner (line 254, no .str), the Year cleaner (line 262, or the
   sort of line 285) and pd.to_numeric (line 268) then raise. *)
CleanRaises(f) ==
    \E k \in 1..Len(required_columns) : Cardinality(Positions(f, required_columns[k])) > 1

(* lines 246-250: the table the cleaners get *)
PrepareColumns(f0) ==
    LET f1 == DropEmpty(f0)
    IN  IF HasRequired(f1) THEN f1 ELSE map_columns(f1)

clean_data(f0) ==
    LET f2 == PrepareColumns(f0)
        f3 == IF HasColumn(f2, TxtCountry) THEN CleanCountry(f2) ELSE f2
        f4 == IF HasColumn(f3, TxtYear) THEN CleanYear(f3) ELSE f3
        f5 == IF HasColumn(f4, TxtEmissions) THEN CleanEmissions(f4) ELSE f4
        f6 == DropMissingRequired(f5)
    IN  IF CleanRaises(f2) THEN [raised |-> TRUE, f |-> f2]
        ELSE [raised |-> FALSE, f |-> SortValues(f6)]

-----------------------------------------------------------------------------
(* _validate_data (lines 351-378) *)

WarnYearMin == 1900

WarnYearMax == 2030

WarnEmissionsMax == 1000000000

MissingColumns(f) ==
    SelectSeq(required_columns, LAMBDA c : ~HasColumn(f, c))

(* variant: the thresholds themselves warn (<=, >= for <, >) *)
ValidationWarningsInclusive(f) ==
    LET jy == Pos(f, TxtYear)
        je == Pos(f, TxtEmissions)
    IN  {w \in {"year_range", "large_emissions"} :
            \/ /\ w = "year_range"
               /\ HasColumn(f, TxtYear)
               /\ \E i \in 1..NRows(f) :
                     f.rows[i][jy].v <= WarnYearMin \/ f.rows[i][jy].v >= WarnYearMax
            \/ /\ w = "large_emissions"
               /\ HasColumn(f, TxtEmissions)
               /\ \E i \in 1..NRows(f) : f.rows[i][je].v >= WarnEmissionsMax}

(* the warnings st.warning shows (lines 366-378) *)
ValidationWarnings(f) ==
    LET jy == Pos(f, TxtYear)
        je == Pos(f, TxtEmissions)
    IN  {w \in {"year_range", "large_emissions"} :
            \/ /\ w = "year_range"
               /\ HasColumn(f, TxtYear)
               /\ \E i \in 1..NRows(f) :
                     f.rows[i][jy].v < WarnYearMin \/ f.rows[i][jy].v > WarnYearMax
            \/ /\ w = "large_emissions"
               /\ HasColumn(f, TxtEmissions)
               /\ \E i \in 1..NRows(f) : f.rows[i][je].v > WarnEmissionsMax}

(* variant: the check of lines 353-361 left out *)
validate_data_no_schema_check(f) ==
    IF NRows(f) = 0
    THEN [error |-> "no_rows", missing |-> <<>>, available |-> <<>>, warnings |-> {}]
    ELSE [error |-> "none", missing |-> <<>>, available |-> <<>>,
          warnings |-> ValidationWarnings(f)]

(* variant: the check of lines 363-364 left out *)
validate_data_no_empty_check(f) ==
    IF MissingColumns(f) # <<>>
    THEN [error |-> "missing_columns", missing |-> MissingColumns(f),
          available |-> f.cols, warnings |-> {}]
    ELSE [error |-> "none", missing |-> <<>>, available |-> <<>>,
          warnings |-> ValidationWarnings(f)]

(* variant: the check of lines 363-364 before the check of lines 353-361 *)
validate_data_empty_check_first(f) ==
    IF NRows(f) = 0
    THEN [error |-> "no_rows", missing |-> <<>>, available |-> <<>>, warnings |-> {}]
    ELSE IF MissingColumns(f) # <<>>
    THEN [error |-> "missing_columns", missing |-> MissingColumns(f),
          available |-> f.cols, warnings |-> {}]
    ELSE [error |-> "none", missing |-> <<>>, available |-> <<>>,
          warnings |-> ValidationWarnings(f)]

validate_data(f) ==
    IF MissingColumns(f) # <<>>
    THEN [error |-> "missing_columns", missing |-> MissingColumns(f),
          available |-> f.cols, warnings |-> {}]
    ELSE IF NRows(f) = 0
    THEN [error |-> "no_rows", missing |-> <<>>, available |-> <<>>, warnings |-> {}]
    ELSE [error |-> "none", missing |-> <<>>, available |-> <<>>,
          warnings |-> ValidationWarnings(f)]

-----------------------------------------------------------------------------
(* _is_wide_format_with_years (lines 100-115), _transform_wide_to_long
   (lines 117-161) *)

WideYearMin == 2000

WideYearMax == 2030

(* int(col) succeeds and 2000 <= year <= 2030 *)
IsYearLabel(col) ==
    /\ IsIntText(Strip(col))
    /\ IntTextValue(Strip(col)) >= WideYearMin
    /\ IntTextValue(Strip(col)) <= WideYearMax

(* the positions of the year columns, the first column skipped *)
YearCols(f) == SeqOfSet(NCols(f), {j \in 2..NCols(f) : IsYearLabel(f.cols[j])})

(* variant: one year column is enough (>= 1 for the >= 2 of line 115) *)
is_wide_format_one_year(f) == NCols(f) >= 3 /\ Len(YearCols(f)) >= 1

is_wide_format_with_years(f) == NCols(f) >= 3 /\ Len(YearCols(f)) >= 2

(* pd.melt: one row per (year column, input row), the year columns in turn *)
Melt(f) ==
    LET yc == YearCols(f)
        n == NRows(f)
    IN  [m \in 1..(Len(yc) * n) |->
            LET c == yc[((m - 1) \div n) + 1]
                i == ((m - 1) % n) + 1
            IN  << f.rows[i][1],
                   IntCell(IntTextValue(Strip(f.cols[c]))),
                   ToNumeric(f.rows[i][c]) >>]

(* variant: a cell that is not numeric is filled with 0 (fillna(0) for the
   dropna of line 154) *)
transform_wide_to_long_fill_zero(f) ==
    LET melted == Melt(f)
        long == [cols |-> <<TxtCountry, TxtYear, TxtEmissions>>,
                 dt   |-> <<"object", "int64", "float64">>,
                 rows |-> [m \in 1..Len(melted) |->
                              [melted[m] EXCEPT ![3] =
                                  IF IsNull(@) THEN FloatCell(0) ELSE Stored(@, "float64")]]]
    IN  IF Len(YearCols(f)) = 0 THEN f ELSE CleanCountry(long)

(* variant: line 154 followed by a filter that keeps positive values only
   (long_df[long_df['Emissions'] > 0]) *)
transform_wide_to_long_positive_only(f) ==
    LET melted == Melt(f)
        dtype == InferDtype([m \in 1..Len(melted) |-> melted[m][3]])
        long == [cols |-> <<TxtCountry, TxtYear, TxtEmissions>>,
                 dt   |-> <<"object", "int64", dtype>>,
                 rows |-> [m \in 1..Len(melted) |->
                              [melted[m] EXCEPT ![3] = Stored(@, dtype)]]]
        kept == DropNaIn(long, 3)
    IN  IF Len(YearCols(f)) = 0 THEN f
        ELSE CleanCountry(KeepRows(kept, {m \in 1..NRows(kept) : kept.rows[m][3].v > 0}))

transform_wide_to_long(f) ==
    LET melted == Melt(f)
        dtype == InferDtype([m \in 1..Len(melted) |-> melted[m][3]])
        long == [cols |-> <<TxtCountry, TxtYear, TxtEmissions>>,
                 dt   |-> <<"object", "int64", dtype>>,
                 rows |-> [m \in 1..Len(melted) |->
                              [melted[m] EXCEPT ![3] = Stored(@, dtype)]]]
    IN  IF Len(YearCols(f)) = 0 THEN f
        ELSE CleanCountry(DropNaIn(long, 3))

(* The sheets on which _transform_wide_to_long raises (pandas 2): pd.melt
   refuses a frame that has a column labelled like value_name, 'Emissions'
   (ValueError, line 136); and with the first column headed 'Year' the melted
   frame has id and variable under one label, both renamed by line 145, so
   long_df['Year'] (line 148) raises KeyError. *)
transform_wide_raises(f) == HasColumn(f, TxtEmissions) \/ f.cols[1] = TxtYear

-----------------------------------------------------------------------------
(* _extract_year_from_time_period (lines 228-241) *)

ExtractYearMin == 1900

ExtractYearMax == 2030

(* re.search(r'(\d{4})', text): the start of the first run of four digits, 0
   without one *)
FirstFourDigits(t) ==
    LET hits == {i \in 1..(Len(t) - 3) : \A d \in 0..3 : IsDigit(t[i + d])}
    IN  IF hits = {} THEN 0 ELSE CHOOSE i \in hits : \A h \in hits : i <= h

(* variant: the range check of line 237 left out *)
extract_year_any_range(t) ==
    LET i == FirstFourDigits(t)
    IN  IF i # 0 THEN IntCell(DigitsValue(SubSeq(t, i, i + 3))) ELSE Null

extract_year_from_time_period(t) ==
    LET i == FirstFourDigits(t)
        year == DigitsValue(SubSeq(t, i, i + 3))
    IN  IF i # 0 /\ year >= ExtractYearMin /\ year <= ExtractYearMax
        THEN IntCell(year) ELSE Null

-----------------------------------------------------------------------------
(* _parse_oecd_format (lines 163-226) *)

TimeRowScan == 15

MinRowCells == 5

TxtOriginalTimePeriod ==
    <<"O", "r", "i", "g", "i", "n", "a", "l", "_", "T", "i", "m", "e", "_",
      "P", "e", "r", "i", "o", "d">>

(* row.dropna(): the cells with a value, closed up *)
NonNull(row) == SelectSeq(row, LAMBDA c : ~IsNull(c))

YearTokens ==
    { <<"2", "0", "2", "2">>, <<"2", "0", "2", "1">>,
      <<"2", "0", "2", "0">>, <<"2", "0", "1", "9">> }

(* variant: five cells are enough (>= 5 for the > 5 of line 172) *)
IsTimeRowFiveCells(row) ==
    /\ Len(NonNull(row)) >= MinRowCells
    /\ \E k \in 1..Len(row) :
          ~IsNull(row[k]) /\ \E y \in YearTokens : Contains(StrOf(row[k]), y)

IsTimeRow(row) ==
    /\ Len(NonNull(row)) > MinRowCells
    /\ \E k \in 1..Len(row) :
          ~IsNull(row[k]) /\ \E y \in YearTokens : Contains(StrOf(row[k]), y)

(* re.sub(r'^[.\s ]+', '', country), the dot being the middle dot *)
RECURSIVE StripIndent(_)
StripIndent(t) ==
    IF t # <<>> /\ (Head(t) = MidDot \/ IsSpace(Head(t))) THEN StripIndent(Tail(t)) ELSE t

(* float(value) succeeds *)
FloatOk(c) == IsNum(c) \/ (c.k = "str" /\ IsIntText(Strip(c.s)))

FloatOf(c) == IF c.k = "str" THEN FloatCell(IntTextValue(Strip(c.s))) ELSE FloatCell(c.v)

(* the records of one data row (lines 187-208): Country, Time_Period, Emissions *)
RowRecords(row, time_periods) ==
    LET row_data == NonNull(row)
        country == StripIndent(Strip(StrOf(row_data[1])))
        values == Tail(row_data)
        js == SeqOfSet(Len(time_periods), {j \in 1..Len(time_periods) :
                                              j <= Len(values) /\ FloatOk(values[j])})
    IN  IF Len(row_data) > MinRowCells
           /\ country # <<>> /\ country # <<"n", "a", "n">> /\ country # <<"N", "a", "N">>
        THEN [k \in 1..Len(js) |->
                 << StrCell(country), StrCell(StrOf(time_periods[js[k]])),
                    FloatOf(values[js[k]]) >>]
        ELSE <<>>

parse_oecd_format(f) ==
    LET scan == {i \in 1..NRows(f) : i <= TimeRowScan /\ IsTimeRow(f.rows[i])}
        time_row == CHOOSE i \in scan : \A h \in scan : i <= h
        country_start_row == time_row + 2
        time_periods == NonNull(Tail(f.rows[time_row]))
        R[i \in (country_start_row - 1)..NRows(f)] ==
            IF i < country_start_row THEN <<>>
            ELSE R[i - 1] \o RowRecords(f.rows[i], time_periods)
        processed_data == IF country_start_row > NRows(f) THEN <<>> ELSE R[NRows(f)]
        years == [k \in 1..Len(processed_data) |->
                     extract_year_from_time_period(processed_data[k][2].s)]
        ydt == InferDtype(years)
    IN  IF scan = {} \/ processed_data = <<>> THEN f
        ELSE [cols |-> <<TxtCountry, TxtYear, TxtEmissions, TxtOriginalTimePeriod>>,
              dt   |-> <<"object", ydt, "float64", "object">>,
              rows |-> [k \in 1..Len(processed_data) |->
                           << processed_data[k][1], Stored(years[k], ydt),
                              processed_data[k][3], processed_data[k][2] >>]]

-----------------------------------------------------------------------------
(* _handle_oecd_structure (lines 75-98) *)

IndicatorScan == 20

Indicators ==
    { <<"r", "e", "f", "e", "r", "e", "n", "c", "e", " ", "a", "r", "e", "a">>,
      <<"t", "i", "m", "e", " ", "p", "e", "r", "i", "o", "d">>,
      <<"m", "a", "r", "i", "t", "i", "m", "e">>,
      <<"e", "m", "i", "s", "s", "i", "o", "n", "s">> }

(* row.dropna().astype(str).str.cat(sep=' ') *)
RowText(row) ==
    LET cells == NonNull(row)
        J[k \in 0..Len(cells)] ==
            IF k = 0 THEN <<>>
            ELSE IF k = 1 THEN StrOf(cells[1])
            ELSE J[k - 1] \o <<" ">> \o StrOf(cells[k])
    IN  J[Len(cells)]

(* variant: every row of the sheet is scanned (range(len(df)) at line 84) *)
oecd_indicators_all_rows(f) ==
    {i \in 1..NRows(f) : \E ind \in Indicators : Contains(Lower(RowText(f.rows[i])), ind)}

oecd_indicators(f) ==
    {i \in 1..NRows(f) :
        i <= IndicatorScan /\ \E ind \in Indicators : Contains(Lower(RowText(f.rows[i])), ind)}

(* which branch _handle_oecd_structure takes *)
Layout(f) ==
    IF is_wide_format_with_years(f) THEN "wide"
    ELSE IF Cardinality(oecd_indicators(f)) >= 2 THEN "agency"
    ELSE "passthrough"

(* variant: the handler of lines 96-98 returns an empty frame,
   pd.DataFrame(), for the original *)
handle_oecd_structure_empty_on_failure(f) ==
    CASE Layout(f) = "wide" ->
            IF transform_wide_raises(f) THEN [cols |-> <<>>, dt |-> <<>>, rows |-> <<>>]
            ELSE transform_wide_to_long(f)
      [] Layout(f) = "agency" -> parse_oecd_format(f)
      [] OTHER -> f

(* lines 77-98: an exception of the wide transformer is caught at line 96 and
   the original is returned; _parse_oecd_format catches its own (line 224) *)
handle_oecd_structure(f) ==
    CASE Layout(f) = "wide" ->
            IF transform_wide_raises(f) THEN f ELSE transform_wide_to_long(f)
      [] Layout(f) = "agency" -> parse_oecd_format(f)
      [] OTHER -> f

-----------------------------------------------------------------------------
(* get_summary_stats (lines 380-398).  Emissions are whole numbers in the
   model, so sums are exact; a mean is the pair of its numerator and its
   denominator. *)

RECURSIVE SumCells(_)
SumCells(cells) == IF cells = <<>> THEN 0 ELSE Head(cells).v + SumCells(Tail(cells))

(* Series.unique(): the values in the order they first appear *)
Unique(cells) ==
    LET F[i \in 0..Len(cells)] ==
            IF i = 0 THEN <<>>
            ELSE IF \E h \in 1..Len(F[i - 1]) : F[i - 1][h] = cells[i] THEN F[i - 1]
            ELSE Append(F[i - 1], cells[i])
    IN  F[Len(cells)]

(* df[df[name] == value] *)
RowsWhere(f, name, value) ==
    KeepRows(f, {i \in 1..NRows(f) : f.rows[i][Pos(f, name)] = value})

MinCell(cells) == CHOOSE c \in {cells[i] : i \in 1..Len(cells)} :
                      \A i \in 1..Len(cells) : c.v <= cells[i].v

MaxCell(cells) == CHOOSE c \in {cells[i] : i \in 1..Len(cells)} :
                      \A i \in 1..Len(cells) : c.v >= cells[i].v

(* df.groupby('Country')['Emissions'].sum(): one sum per country *)
GroupSums(f) ==
    LET countries == Unique(Column(f, Pos(f, TxtCountry)))
    IN  [k \in 1..Len(countries) |->
            IntCell(SumCells(Column(RowsWhere(f, TxtCountry, countries[k]),
                                    Pos(f, TxtEmissions))))]

(* variant: the mean of the Emissions of the records, df['Emissions'].mean(),
   for the mean of the sums per country *)
MeanEmissionsPerRecord(f) ==
    [num |-> SumCells(Column(f, Pos(f, TxtEmissions))), den |-> NRows(f)]

(* lines 392-395 *)
MeanEmissionsPerCountry(f) ==
    [num |-> SumCells(GroupSums(f)), den |-> Len(GroupSums(f))]

get_summary_stats(f) ==
    IF NRows(f) = 0 \/ NCols(f) = 0 THEN [computed |-> TRUE, empty |-> TRUE]
    ELSE [computed |-> TRUE,
          empty |-> FALSE,
          total_records |-> NRows(f),
          countries_count |->
              IF HasColumn(f, TxtCountry)
              THEN Len(Unique(Column(f, Pos(f, TxtCountry)))) ELSE 0,
          year_range |->
              IF HasColumn(f, TxtYear)
              THEN <<MinCell(Column(f, Pos(f, TxtYear))), MaxCell(Column(f, Pos(f, TxtYear)))>>
              ELSE <<Null, Null>>,
          total_emissions |->
              IF HasColumn(f, TxtEmissions)
              THEN SumCells(Column(f, Pos(f, TxtEmissions))) ELSE 0,
          avg_emissions_per_country |->
              IF HasColumn(f, TxtCountry) /\ HasColumn(f, TxtEmissions)
              THEN MeanEmissionsPerCountry(f) ELSE [num |-> 0, den |-> 1]]

-----------------------------------------------------------------------------
(* calculate_trends (lines 406-434).  Trend_Percentage is the pair of
   numerator and denominator of ((last - first) / first) * 100; the division
   of floats keeps the sign and gives 0 only for last = first. *)

(* lines 419-422 *)
TrendPercentage(first_year_emissions, last_year_emissions) ==
    IF first_year_emissions > 0
    THEN [num |-> (last_year_emissions - first_year_emissions) * 100,
          den |-> first_year_emissions]
    ELSE [num |-> 0, den |-> 1]

(* variant: >= for the > of line 431 *)
TrendDirectionFromZero(trend_pct) ==
    IF trend_pct.num >= 0 THEN "Increasing"
    ELSE IF trend_pct.num < 0 THEN "Decreasing"
    ELSE "Stable"

(* line 431; the denominator is positive *)
TrendDirection(trend_pct) ==
    IF trend_pct.num > 0 THEN "Increasing"
    ELSE IF trend_pct.num < 0 THEN "Decreasing"
    ELSE "Stable"

(* line 413: the records of a country by Year; records of one year keep their
   order (numpy sorts the short arrays of the model by insertion) *)
CountryData(f, country) == SortBy(RowsWhere(f, TxtCountry, country), <<TxtYear>>)

(* variant: a country with one record gets an entry too (>= 1 for the > 1 of
   line 414) *)
HasTrendAlways(country_data) == NRows(country_data) >= 1

(* line 414 *)
HasTrend(country_data) == NRows(country_data) > 1

(* lines 416-432 *)
TrendEntry(country, country_data) ==
    LET first == country_data.rows[1]
        last == country_data.rows[NRows(country_data)]
        first_year_emissions == first[Pos(country_data, TxtEmissions)].v
        last_year_emissions == last[Pos(country_data, TxtEmissions)].v
        trend_pct == TrendPercentage(first_year_emissions, last_year_emissions)
    IN  [Country |-> country.s,
         First_Year |-> first[Pos(country_data, TxtYear)].v,
         Last_Year |-> last[Pos(country_data, TxtYear)].v,
         First_Year_Emissions |-> first_year_emissions,
         Last_Year_Emissions |-> last_year_emissions,
         Trend_Percentage |-> trend_pct,
         Trend_Direction |-> TrendDirection(trend_pct)]

calculate_trends(f) ==
    IF ~(HasColumn(f, TxtCountry) /\ HasColumn(f, TxtYear) /\ HasColumn(f, TxtEmissions))
    THEN [computed |-> TRUE, entries |-> <<>>]
    ELSE LET countries == Unique(Column(f, Pos(f, TxtCountry)))
             T[k \in 0..Len(countries)] ==
                 IF k = 0 THEN <<>>
                 ELSE IF HasTrend(CountryData(f, countries[k]))
                 THEN Append(T[k - 1],
                             TrendEntry(countries[k], CountryData(f, countries[k])))
                 ELSE T[k - 1]
         IN  [computed |-> TRUE, entries |-> T[Len(countries)]]

-----------------------------------------------------------------------------
(* The sheets the pipeline is run on.  Each is what pd.read_excel returns for
   a sheet with a header row: at most MaxRows data rows drawn from a palette
   of representative rows, under a palette of header rows.  Header labels are
   text and distinct (pd.read_excel renames a repeated header); a cell of
   text is none of the spellings pd.read_excel reads as NaN ("nan", "n/a",
   "", ...). *)

MaxRows == 2

TxtReferenceArea == <<"R", "e", "f", "e", "r", "e", "n", "c", "e", " ", "a", "r", "e", "a">>

TxtTimePeriod == <<"T", "I", "M", "E", "_", "P", "E", "R", "I", "O", "D">>

TxtObsValue == <<"O", "B", "S", "_", "V", "A", "L", "U", "E">>

TxtRegion == <<"R", "E", "G", "I", "O", "N">>

TxtPeriod == <<"P", "e", "r", "i", "o", "d">>

TxtMtCO2Total == <<"M", "t", " ", "C", "O", "2", " ", "t", "o", "t", "a", "l">>

TxtNotes == <<"N", "o", "t", "e", "s">>

TxtName == <<"N", "a", "m", "e">>

TxtValue == <<"V", "a", "l", "u", "e">>

TxtCO2 == <<"C", "O", "2">>

TxtArea == <<"A", "r", "e", "a">>

TxtUSA == <<"U", "S", "A">>

TxtFRA == <<"F", "R", "A">>

TxtDEU == <<"D", "E", "U">>

TxtBlank == <<" ", " ">>

TxtPadFr == <<" ", "F", "r", " ">>

TxtIndentFRA == <<"~", " ", "F", "R", "A">>

Txt2019M03 == <<"2", "0", "1", "9", "-", "M", "0", "3">>

Txt2030M06 == <<"2", "0", "3", "0", "M", "0", "6">>

Txt2020M01 == <<"2", "0", "2", "0", "M", "0", "1">>

TxtFifteen == <<"1", "5">>

TxtX == <<"x">>

Txt2020 == <<"2", "0", "2", "0">>

Txt2021 == <<"2", "0", "2", "1">>

Txt1999 == <<"1", "9", "9", "9">>

TxtTitle == <<"M", "a", "r", "i", "t", "i", "m", "e", " ", "t", "r", "a", "n", "s", "p", "o", "r", "t", " ", "C", "O", "2">>

TxtTimePeriodLabel == <<"T", "i", "m", "e", " ", "p", "e", "r", "i", "o", "d">>

TxtUnit == <<"T", "o", "n", "n", "e", "s">>

Txt2022M01 == <<"2", "0", "2", "2", "-", "M", "0", "1">>

Txt2019Q4 == <<"2", "0", "1", "9", "-", "Q", "4">>

TxtQ11850 == <<"Q", "1", "-", "1", "8", "5", "0">>

TxtTotal == <<"T", "o", "t", "a", "l">>

Txt20221 == <<"2", "0", "2", "2", "1">>

Txt2022M03 == <<"2", "0", "2", "2", "-", "M", "0", "3">>

Txt2021M02 == <<"2", "0", "2", "1", "-", "M", "0", "2">>

(* all sequences of at most n elements of a set *)
SeqsUpTo(S, n) == UNION {[1..m -> S] : m \in 0..n}

(* long format: country, period, value *)
LongHeaders ==
    { <<TxtCountry, TxtYear, TxtEmissions>>,
      <<TxtReferenceArea, TxtTimePeriod, TxtObsValue>>,
      <<TxtRegion, TxtPeriod, TxtMtCO2Total>>,
      <<TxtCountry, TxtYear, TxtNotes>>,
      <<TxtName, TxtYear, TxtEmissions>>,
      <<TxtCountry, TxtNotes, TxtValue>>,
      <<TxtCountry, TxtRegion, TxtYear>>,
      <<TxtRegion, TxtValue, TxtCO2>> }

LongRows ==
    { <<StrCell(TxtUSA), IntCell(2020), IntCell(10)>>,
      <<StrCell(TxtFRA), IntCell(1900), IntCell(0)>>,
      <<StrCell(TxtUSA), StrCell(Txt2019M03), IntCell(5)>>,
      <<Null, IntCell(2021), IntCell(7)>>,
      <<StrCell(TxtBlank), IntCell(2020), IntCell(10)>>,
      <<StrCell(TxtUSA), IntCell(2020), IntCell(-5)>>,
      <<StrCell(TxtFRA), Null, IntCell(30)>>,
      <<StrCell(TxtUSA), IntCell(1850), IntCell(1000000001)>>,
      <<StrCell(TxtDEU), StrCell(Txt2030M06), IntCell(1000000000)>>,
      <<StrCell(TxtFRA), IntCell(2021), StrCell(TxtX)>>,
      <<Null, Null, Null>> }

LongInputs == {ReadExcel(h, rows) : h \in LongHeaders, rows \in SeqsUpTo(LongRows, MaxRows)}

(* wide format: a label and one cell per year column; the second header puts
   a column that is no year between the two years, the third has one year
   only, the last a column headed Emissions between the years *)
WideHeaders ==
    { <<TxtCountry, Txt2020, Txt2021>>,
      <<TxtArea, Txt2021, TxtNotes, Txt2020>>,
      <<TxtCountry, Txt1999, Txt2020>>,
      <<TxtCountry, Txt2020, TxtEmissions, Txt2021>> }

WideRows ==
    { <<StrCell(TxtUSA), IntCell(10), IntCell(20)>>,
      <<StrCell(TxtPadFr), Null, IntCell(5)>>,
      <<Null, IntCell(1), IntCell(2)>>,
      <<StrCell(TxtUSA), StrCell(TxtX), IntCell(7)>>,
      <<StrCell(TxtUSA), IntCell(-3), IntCell(0)>>,
      <<StrCell(TxtBlank), IntCell(4), IntCell(4)>>,
      <<StrCell(TxtFRA), StrCell(TxtFifteen), Null>>,
      <<StrCell(TxtTitle), IntCell(3), IntCell(4)>>,
      <<Null, Null, Null>> }

(* a palette row under a header: a four-column header gets a note in column 3 *)
WideRow(h, r) == IF Len(h) = 4 THEN <<r[1], r[2], StrCell(TxtX), r[3]>> ELSE r

WideInputs ==
    {ReadExcel(h, [i \in 1..Len(rows) |-> WideRow(h, rows[i])]) :
        h \in WideHeaders, rows \in SeqsUpTo(WideRows, MaxRows)}

(* agency report: a title row, the row of the period labels, a row of units,
   then the country rows; seven columns, the first two periods and the first
   two values of each country row vary *)
AgencyColumns == <<TxtTitle, <<"U", "1">>, <<"U", "2">>, <<"U", "3">>, <<"U", "4">>,
                   <<"U", "5">>, <<"U", "6">>>>

PeriodLabels == {Txt2022M01, Txt2019Q4, TxtQ11850, TxtTotal, Txt20221}

SecondPeriodLabels == {Txt2021M02, TxtTotal}

AgencyRows ==
    { <<StrCell(TxtUSA), IntCell(1), IntCell(2)>>,
      <<StrCell(TxtIndentFRA), IntCell(3), IntCell(-7)>>,
      <<StrCell(TxtUSA), Null, IntCell(4)>>,
      <<StrCell(TxtFRA), StrCell(TxtX), IntCell(6)>>,
      <<Null, Null, IntCell(8)>> }

AgencySheet(p1, p2, rows) ==
    << <<StrCell(TxtReferenceArea), Null, Null, Null, Null, Null, Null>>,
       <<StrCell(TxtTimePeriodLabel), StrCell(p1), StrCell(p2), StrCell(Txt2022M03),
         StrCell(Txt2021M02), StrCell(Txt2020M01), StrCell(Txt2019M03)>>,
       <<Null, StrCell(TxtUnit), StrCell(TxtUnit), StrCell(TxtUnit), StrCell(TxtUnit),
         StrCell(TxtUnit), StrCell(TxtUnit)>> >>
    \o [i \in 1..Len(rows) |->
           <<rows[i][1], rows[i][2], rows[i][3], IntCell(11), IntCell(12), IntCell(13),
             IntCell(14)>>]

AgencyInputs ==
    {ReadExcel(AgencyColumns, AgencySheet(p1, p2, rows)) :
        p1 \in PeriodLabels, p2 \in SecondPeriodLabels, rows \in SeqsUpTo(AgencyRows, MaxRows)}

Inputs == LongInputs \cup WideInputs \cup AgencyInputs

(* tall sheets, for the scan of the first 20 rows: two columns, MaxTallRows
   rows or one less, plain rows but for the marked ones, which are at the top
   or around row 20 and hold an indicator, in one cell or across two *)

MaxTallRows == 21

TxtTime == <<"T", "i", "m", "e">>

TxtLowerPeriod == <<"p", "e", "r", "i", "o", "d">>

TallHeader == <<TxtName, TxtNotes>>

PlainRow == <<StrCell(TxtUSA), IntCell(1)>>

MarkedRows ==
    { <<StrCell(TxtTitle), IntCell(1)>>,
      <<StrCell(TxtTime), StrCell(TxtLowerPeriod)>> }

MarkPositions == {1} \cup ((IndicatorScan - 1)..MaxTallRows)

TallSheet(n, marks, m) == [i \in 1..n |-> IF i \in marks THEN m ELSE PlainRow]

TallInputs ==
    {ReadExcel(TallHeader, TallSheet(n, marks, m)) :
        n \in (MaxTallRows - 1)..MaxTallRows, marks \in SUBSET MarkPositions, m \in MarkedRows}

ClassifyInputs == TallInputs \cup WideInputs \cup AgencyInputs

(* agency reports of other shapes, for the search of the row of the period
   labels: 1, 14 or 15 title rows, then at most MaxLayoutRows rows, each a
   row of period labels (of two kinds), a row of labels with five cells
   only, a country row or a country row with five cells only *)

MaxLayoutRows == 3

TitleRow == <<StrCell(TxtTitle), Null, Null, Null, Null, Null, Null>>

LayoutRows ==
    { <<StrCell(TxtTimePeriodLabel), StrCell(Txt2022M01), StrCell(Txt2021M02),
        StrCell(Txt2022M03), StrCell(Txt2019Q4), StrCell(Txt2020M01), StrCell(Txt2019M03)>>,
      <<StrCell(TxtTimePeriodLabel), StrCell(Txt2019Q4), StrCell(Txt2019Q4),
        StrCell(Txt2019Q4), StrCell(Txt2019Q4), StrCell(Txt2019Q4), StrCell(Txt2019Q4)>>,
      <<StrCell(TxtTimePeriodLabel), StrCell(Txt2022M01), StrCell(Txt2021M02),
        StrCell(Txt2020M01), StrCell(Txt2019M03), Null, Null>>,
      <<StrCell(TxtUSA), IntCell(1), IntCell(2), IntCell(3), IntCell(4), IntCell(5),
        IntCell(6)>>,
      <<StrCell(TxtFRA), IntCell(7), IntCell(8), IntCell(9), IntCell(10), Null, Null>> }

LayoutSheet(pad, rows) == [i \in 1..pad |-> TitleRow] \o rows

LayoutInputs ==
    {ReadExcel(AgencyColumns, LayoutSheet(pad, rows)) :
        pad \in {1, TimeRowScan - 1, TimeRowScan}, rows \in SeqsUpTo(LayoutRows, MaxLayoutRows)}

ReportInputs == LayoutInputs \cup AgencyInputs

(* Long sheets whose period column is text: at most MaxPeriodRows rows of one
   country, each with a period of one of the written forms, a text without a
   digit, or no period at all *)
MaxPeriodRows == 3

Txt2020Dash01 == <<"2", "0", "2", "0", "-", "0", "1">>

PeriodCells ==
    { StrCell(Txt2020Dash01), StrCell(Txt2019M03), StrCell(Txt2020M01),
      StrCell(Txt2021), StrCell(TxtX), Null }

PeriodRows == {<<StrCell(TxtUSA), p, IntCell(10)>> : p \in PeriodCells}

PeriodInputs ==
    {ReadExcel(<<TxtReferenceArea, TxtTimePeriod, TxtObsValue>>, rows) :
        rows \in SeqsUpTo(PeriodRows, MaxPeriodRows)}

(* The tables the summaries are computed on: tables as load_and_clean_data
   returns them, Country, Year, Emissions with at least one and at most
   MaxRecords records, sorted by Country and Year. *)

MaxRecords == 3

RecordPalette ==
    {<<StrCell(c), IntCell(y), FloatCell(e)>> :
        c \in {TxtFRA, TxtUSA}, y \in {2019, 2020, 2021}, e \in {0, 10, 25}}

CanonicalFrame(rows) ==
    [cols |-> <<TxtCountry, TxtYear, TxtEmissions>>,
     dt   |-> <<"object", "int64", "float64">>,
     rows |-> rows]

CanonicalTables ==
    {CanonicalFrame(rows) : rows \in
        {r \in SeqsUpTo(RecordPalette, MaxRecords) :
            /\ r # <<>>
            /\ \A i \in 1..(Len(r) - 1) :
                  \/ StrLess(r[i][1].s, r[i + 1][1].s)
                  \/ r[i][1] = r[i + 1][1] /\ r[i][2].v <= r[i + 1][2].v}}

(* The workbooks _find_main_sheet is run on: at most MaxSheets sheets, at
   least one, with names that differ (the keys of the dict pd.read_excel
   returns for sheet_name=None). *)

MaxSheets == 3

TxtSheet1 == <<"S", "h", "e", "e", "t", "1">>

TxtNotes2 == <<"N", "o", "t", "e", "s", " ", "2">>

TxtSummary == <<"S", "u", "m", "m", "a", "r", "y">>

TxtMetadata == <<"M", "e", "t", "a", "d", "a", "t", "a">>

TxtTABLE1 == <<"T", "A", "B", "L", "E", " ", "1">>

TxtTransport == <<"T", "r", "a", "n", "s", "p", "o", "r", "t">>

TxtMaritimeData == <<"M", "a", "r", "i", "t", "i", "m", "e", " ", "d", "a", "t", "a">>

TxtCO2byYear == <<"C", "O", "2", " ", "b", "y", " ", "y", "e", "a", "r">>

SheetNamePalette ==
    { TxtSheet1, TxtNotes2, TxtSummary, TxtMetadata, TxtTABLE1, TxtTransport,
      TxtEmissions, TxtMaritimeData, TxtCO2byYear }

Workbooks ==
    {w \in SeqsUpTo(SheetNamePalette, MaxSheets) :
        /\ w # <<>>
        /\ \A i, j \in 1..Len(w) : i # j => w[i] # w[j]}

(* the table of a sheet of such a workbook: one column, headed by the name of
   the sheet, without rows *)
SheetTable(name) == ReadExcel(<<name>>, <<>>)

NoFrame == [cols |-> <<>>, dt |-> <<>>, rows |-> <<>>]

-----------------------------------------------------------------------------
(* load_and_clean_data (lines 25-60), one run on one sheet.
   pc: "loaded" (the sheet is read), "structured" (line 49 done), "cleaned"
   (line 52 done), then "returned" (line 57) or "failed" (line 60).
   route records the branch line 49 took; failure what line 60 raises;
   warnings what _validate_data showed. *)

NoFailure == [error |-> "none", missing |-> <<>>, available |-> <<>>]

NoStats == [computed |-> FALSE]

NoTrends == [computed |-> FALSE]

(* the sheet is read and chosen (lines 27-46): a workbook of one sheet *)
Init ==
    /\ input \in Inputs
    /\ df = input
    /\ pc = "loaded"
    /\ route = "none"
    /\ failure = NoFailure
    /\ warnings = {}
    /\ sheet_names = <<TxtSheet1>>
    /\ main_sheet = find_main_sheet(sheet_names)
    /\ stats = NoStats
    /\ trends = NoTrends

(* line 49 *)
HandleOecdStructure ==
    /\ pc = "loaded"
    /\ df' = handle_oecd_structure(df)
    /\ route' = Layout(df)
    /\ pc' = "structured"
    /\ UNCHANGED <<input, failure, warnings, sheet_names, main_sheet, stats, trends>>

(* line 52; an exception of a cleaner leaves through line 60 *)
CleanData ==
    /\ pc = "structured"
    /\ LET r == clean_data(df)
       IN  IF r.raised
           THEN /\ pc' = "failed"
                /\ failure' = [error |-> "exception", missing |-> <<>>, available |-> <<>>]
                /\ df' = r.f
           ELSE /\ pc' = "cleaned"
                /\ failure' = failure
                /\ df' = r.f
    /\ UNCHANGED <<input, route, warnings, sheet_names, main_sheet, stats, trends>>

(* lines 55-60 *)
ValidateData ==
    /\ pc = "cleaned"
    /\ LET v == validate_data(df)
       IN  /\ pc' = IF v.error = "none" THEN "returned" ELSE "failed"
           /\ failure' = [error |-> v.error, missing |-> v.missing,
                          available |-> v.available]
           /\ warnings' = v.warnings
    /\ UNCHANGED <<input, df, route, sheet_names, main_sheet, stats, trends>>

Next == HandleOecdStructure \/ CleanData \/ ValidateData

Spec == Init /\ [][Next]_vars

(* the same run on the sheets of ClassifyInputs *)
ClassifyInit ==
    /\ input \in ClassifyInputs
    /\ df = input
    /\ pc = "loaded"
    /\ route = "none"
    /\ failure = NoFailure
    /\ warnings = {}
    /\ sheet_names = <<TxtSheet1>>
    /\ main_sheet = find_main_sheet(sheet_names)
    /\ stats = NoStats
    /\ trends = NoTrends

ClassifySpec == ClassifyInit /\ [][Next]_vars

(* the same run on the sheets of ReportInputs *)
ReportInit ==
    /\ input \in ReportInputs
    /\ df = input
    /\ pc = "loaded"
    /\ route = "none"
    /\ failure = NoFailure
    /\ warnings = {}
    /\ sheet_names = <<TxtSheet1>>
    /\ main_sheet = find_main_sheet(sheet_names)
    /\ stats = NoStats
    /\ trends = NoTrends

ReportSpec == ReportInit /\ [][Next]_vars

(* the same run on the sheets of PeriodInputs *)
PeriodInit ==
    /\ input \in PeriodInputs
    /\ df = input
    /\ pc = "loaded"
    /\ route = "none"
    /\ failure = NoFailure
    /\ warnings = {}
    /\ sheet_names = <<TxtSheet1>>
    /\ main_sheet = find_main_sheet(sheet_names)
    /\ stats = NoStats
    /\ trends = NoTrends

PeriodSpec == PeriodInit /\ [][Next]_vars

-----------------------------------------------------------------------------
(* load_and_clean_data, lines 43-46: the workbook is read, the main sheet is
   chosen among its sheets and its table becomes df. *)

SheetInit ==
    /\ sheet_names \in Workbooks
    /\ main_sheet = <<>>
    /\ input = NoFrame
    /\ df = NoFrame
    /\ pc = "workbook"
    /\ route = "none"
    /\ failure = NoFailure
    /\ warnings = {}
    /\ stats = NoStats
    /\ trends = NoTrends

FindMainSheet ==
    /\ pc = "workbook"
    /\ IF find_main_sheet_raises(sheet_names)
       THEN /\ pc' = "failed"
            /\ failure' = [error |-> "exception", missing |-> <<>>, available |-> <<>>]
            /\ UNCHANGED <<main_sheet, df, input>>
       ELSE /\ main_sheet' = find_main_sheet(sheet_names)
            /\ df' = SheetTable(main_sheet')
            /\ input' = df'
            /\ pc' = "loaded"
            /\ failure' = failure
    /\ UNCHANGED <<route, warnings, sheet_names, stats, trends>>

SheetNext == FindMainSheet

SheetSpec == SheetInit /\ [][SheetNext]_vars

-----------------------------------------------------------------------------
(* get_summary_stats and calculate_trends on a returned table, each called
   once, in either order. *)

StatsInit ==
    /\ input \in CanonicalTables
    /\ df = input
    /\ pc = "returned"
    /\ route = "none"
    /\ failure = NoFailure
    /\ warnings = {}
    /\ sheet_names = <<TxtSheet1>>
    /\ main_sheet = find_main_sheet(sheet_names)
    /\ stats = NoStats
    /\ trends = NoTrends

GetSummaryStats ==
    /\ pc = "returned"
    /\ ~stats.computed
    /\ stats' = get_summary_stats(df)
    /\ UNCHANGED <<input, df, pc, route, failure, warnings, sheet_names, main_sheet, trends>>

CalculateTrends ==
    /\ pc = "returned"
    /\ ~trends.computed
    /\ trends' = calculate_trends(df)
    /\ UNCHANGED <<input, df, pc, route, failure, warnings, sheet_names, main_sheet, stats>>

StatsNext == GetSummaryStats \/ CalculateTrends

StatsSpec == StatsInit /\ [][StatsNext]_vars

-----------------------------------------------------------------------------
(* The claims.  A run has ended when pc is "returned" or "failed"; the table
   load_and_clean_data returns is df in a state with pc = "returned". *)

CountryOf(f, i) == f.rows[i][Pos(f, TxtCountry)].s

YearOf(f, i) == f.rows[i][Pos(f, TxtYear)].v

EmissionsOf(f, i) == f.rows[i][Pos(f, TxtEmissions)].v

PeriodOf(f, i) == f.rows[i][Pos(f, TxtOriginalTimePeriod)].s

(* the agency-report transformer produced records *)
AgencyRecords == route = "agency" /\ HasColumn(df, TxtOriginalTimePeriod)

(* C1: in every table returned by load_and_clean_data adjacent records are in
   order: Country[i] <= Country[i+1] as text, and Year[i] <= Year[i+1] when
   the countries are equal. *)
C1_SortedOutput ==
    pc = "returned" =>
        \A i \in 1..(NRows(df) - 1) :
            /\ StrLeq(CountryOf(df, i), CountryOf(df, i + 1))
            /\ CountryOf(df, i) = CountryOf(df, i + 1) => YearOf(df, i) <= YearOf(df, i + 1)

(* a returned table whose rows came in the other order: USA before FRA in
   the sheet, FRA before USA in the table *)
C1_Witness ==
    /\ pc = "returned"
    /\ route = "passthrough"
    /\ NRows(df) >= 2
    /\ input.rows[1][1] = StrCell(TxtUSA)
    /\ CountryOf(df, 1) = TxtFRA
    /\ CountryOf(df, NRows(df)) = TxtUSA

(* C2: whichever route was taken, no returned table holds a record with
   Emissions < 0, nor one whose Country is empty or the text "nan". *)
C2_NoRejectedRecords ==
    pc = "returned" =>
        \A i \in 1..NRows(df) :
            /\ EmissionsOf(df, i) >= 0
            /\ CountryOf(df, i) # <<>>
            /\ CountryOf(df, i) # <<"n", "a", "n">>

(* a table returned for a wide sheet that held a negative value and a row
   without a label *)
C2_Witness ==
    /\ pc = "returned"
    /\ route = "wide"
    /\ \E i \in 1..NRows(input) : IsNum(input.rows[i][2]) /\ input.rows[i][2].v < 0
    /\ \E i \in 1..NRows(input) : IsNull(input.rows[i][1])
    /\ NRows(df) > 0

(* the text of the label of row i of the sheet, trimmed *)
WideLabel(i) == Strip(StrOf(input.rows[i][1]))

(* the year a column header stands for *)
HeaderYear(j) == IntTextValue(Strip(input.cols[j]))

(* a cell that holds a number, or text that reads as one *)
NumericCell(c) == c.k \in {"int", "float"} \/ (c.k = "str" /\ IsIntText(Strip(c.s)))

(* C3: for a wide sheet with N rows and K year columns the Wide Transformer,
   where it returns (on a sheet with a column headed Emissions it raises),
   returns at most N*K records; each record's Year is one of the K header
   years and its Country one of the N trimmed labels; and a (label, year) pair
   has no more records than the sheet has numeric cells for it, so a cell that
   is not numeric gives no record. *)
C3_WideOutputBounded ==
    (pc = "structured" /\ route = "wide" /\ ~transform_wide_raises(input)) =>
        LET yc == YearCols(input)
            N == NRows(input)
            K == Len(yc)
        IN  /\ NRows(df) <= N * K
            /\ \A r \in 1..NRows(df) :
                  /\ df.rows[r][2].k = "int"
                  /\ \E k \in 1..K : YearOf(df, r) = HeaderYear(yc[k])
                  /\ \E i \in 1..N : CountryOf(df, r) = WideLabel(i)
            /\ \A i \in 1..N : \A k \in 1..K :
                  Cardinality({r \in 1..NRows(df) :
                                  /\ CountryOf(df, r) = WideLabel(i)
                                  /\ YearOf(df, r) = HeaderYear(yc[k])})
                  <= Cardinality({c \in (1..N) \X (1..K) :
                                  /\ WideLabel(c[1]) = WideLabel(i)
                                  /\ HeaderYear(yc[c[2]]) = HeaderYear(yc[k])
                                  /\ NumericCell(input.rows[c[1]][yc[c[2]]])})

(* the transformer has run on a sheet with a cell of text that is no number
   and returned fewer than N*K records, but some *)
C3_Witness ==
    /\ pc = "structured"
    /\ route = "wide"
    /\ ~transform_wide_raises(input)
    /\ \E i \in 1..NRows(input) : input.rows[i][2] = StrCell(TxtX)
    /\ NRows(df) > 0
    /\ NRows(df) < NRows(input) * Len(YearCols(input))

(* C4, as claimed: for a sheet that went through the Agency-Report
   Transformer, each record of the returned table has the Year that is the
   first 4-digit token of its Original_Time_Period, whatever the other
   records look like. *)
C4_YearIsFirstToken ==
    (pc = "returned" /\ AgencyRecords) =>
        \A r \in 1..NRows(df) :
            LET t == PeriodOf(df, r)
                i == FirstFourDigits(t)
            IN  i # 0 /\ YearOf(df, r) = DigitsValue(SubSeq(t, i, i + 3))

(* a period label with a 4-digit token whose value is in [1900, 2030] *)
HasYearToken(t) ==
    \E i \in 1..(Len(t) - 3) :
        /\ \A d \in 0..3 : IsDigit(t[i + d])
        /\ DigitsValue(SubSeq(t, i, i + 3)) >= 1900
        /\ DigitsValue(SubSeq(t, i, i + 3)) <= 2030

(* C5: a record of an agency report whose period label has no 4-digit token
   in [1900, 2030] leaves the transformer with a null year, and no such
   record is in the returned table. *)
C5_NoTokenNoRecord ==
    /\ (pc = "structured" /\ AgencyRecords) =>
          \A r \in 1..NRows(df) :
              ~HasYearToken(PeriodOf(df, r)) => IsNull(df.rows[r][Pos(df, TxtYear)])
    /\ (pc = "returned" /\ AgencyRecords) =>
          \A r \in 1..NRows(df) : HasYearToken(PeriodOf(df, r))

(* a table returned for a report whose first period label is "Q1-1850" and
   whose country rows have a value under it *)
C5_Witness ==
    /\ pc = "returned"
    /\ AgencyRecords
    /\ input.rows[2][2] = StrCell(TxtQ11850)
    /\ NRows(input) > 3
    /\ \A i \in 4..NRows(input) : input.rows[i][2].k = "int"

(* the three headers are exact synonyms, whatever the case *)
SynonymHeaders(cols) ==
    /\ Len(cols) = 3
    /\ ExactIn(CountrySynonyms, cols[1])
    /\ ExactIn(YearSynonyms, cols[2])
    /\ ExactIn(EmissionsSynonyms, cols[3])

(* text of the form YYYY-Mxx *)
IsYearMonth(c) ==
    /\ c.k = "str"
    /\ Len(c.s) = 8
    /\ \A i \in {1, 2, 3, 4, 7, 8} : IsDigit(c.s[i])
    /\ c.s[5] = "-"
    /\ c.s[6] = "M"

(* C7: a long-format sheet whose headers are exact synonyms (Reference area,
   TIME_PERIOD, OBS_VALUE) has its columns renamed to Country, Year,
   Emissions and is cleaned; a row with a period YYYY-Mxx, a country and a
   value that is not negative is in the returned table with Year = YYYY. *)
C7_SynonymsAndYearMonth ==
    (SynonymHeaders(input.cols) /\ route = "passthrough") =>
        /\ pc \in {"cleaned", "returned"} =>
              \A j \in 1..NCols(df) : df.cols[j] \in {TxtCountry, TxtYear, TxtEmissions}
        /\ pc = "returned" =>
              /\ df.cols = <<TxtCountry, TxtYear, TxtEmissions>>
              /\ \A i \in 1..NRows(input) :
                    (/\ IsYearMonth(input.rows[i][2])
                     /\ input.rows[i][1].k = "str"
                     /\ Strip(input.rows[i][1].s) # <<>>
                     /\ input.rows[i][3].k = "int"
                     /\ input.rows[i][3].v >= 0)
                    => \E r \in 1..NRows(df) :
                          /\ CountryOf(df, r) = Strip(input.rows[i][1].s)
                          /\ YearOf(df, r) = DigitsValue(SubSeq(input.rows[i][2].s, 1, 4))
                          /\ EmissionsOf(df, r) = input.rows[i][3].v

(* the sheet headed Reference area, TIME_PERIOD, OBS_VALUE with a row of
   period "2019-M03", returned with Year 2019 *)
C7_Witness ==
    /\ pc = "returned"
    /\ input.cols = <<TxtReferenceArea, TxtTimePeriod, TxtObsValue>>
    /\ \E i \in 1..NRows(input) : input.rows[i][2] = StrCell(Txt2019M03)
    /\ \E r \in 1..NRows(df) : YearOf(df, r) = 2019

(* the table as the Column Mapper leaves it (lines 246-250 of the run) *)
AfterMapping == PrepareColumns(handle_oecd_structure(input))

(* C8, as claimed: when a required field is absent after column mapping, the
   run fails with the schema failure that carries the list of the missing
   fields and the list of the columns present. *)
C8_MissingFieldsSchemaFailure ==
    (pc \in {"returned", "failed"} /\ MissingColumns(AfterMapping) # <<>>) =>
        /\ pc = "failed"
        /\ failure = [error |-> "missing_columns",
                      missing |-> MissingColumns(AfterMapping),
                      available |-> AfterMapping.cols]

(* C9: when the three required columns are present and no row is left after
   cleaning, the run fails with the empty-dataset failure and returns no
   table. *)
C9_EmptyDatasetFailure ==
    (/\ pc \in {"returned", "failed"}
     /\ failure.error # "exception"
     /\ HasRequired(df)
     /\ NRows(df) = 0)
    => pc = "failed" /\ failure.error = "no_rows"

(* the run on a sheet of rows that all hold a negative value has failed *)
C9_Witness ==
    /\ pc = "failed"
    /\ failure.error = "no_rows"
    /\ input.cols = <<TxtCountry, TxtYear, TxtEmissions>>
    /\ NRows(input) >= 2
    /\ \A i \in 1..NRows(input) : input.rows[i][3].k = "int" /\ input.rows[i][3].v < 0

(* C10: a cleaned table with the required columns and a row is returned,
   whatever its years and values, with its records as cleaned; the year
   warning is shown exactly when a Year is below 1900 or above 2030, the
   emissions warning exactly when a value is above 1e9. *)
C10_WarningsNotFailures ==
    (/\ pc \in {"returned", "failed"}
     /\ failure.error # "exception"
     /\ HasRequired(df)
     /\ NRows(df) > 0)
    => /\ pc = "returned"
       /\ failure = NoFailure
       /\ "year_range" \in warnings <=>
             \E i \in 1..NRows(df) : YearOf(df, i) < 1900 \/ YearOf(df, i) > 2030
       /\ "large_emissions" \in warnings <=>
             \E i \in 1..NRows(df) : EmissionsOf(df, i) > 1000000000

(* a table returned with both warnings and the records that caused them: a
   year of 1850 and a value above 1e9 *)
C10_Witness ==
    /\ pc = "returned"
    /\ warnings = {"year_range", "large_emissions"}
    /\ \E i \in 1..NRows(df) : YearOf(df, i) = 1850 /\ EmissionsOf(df, i) > 1000000000

-----------------------------------------------------------------------------
(* Claims on the choice of the sheet (SheetSpec). *)

(* the priority of the best keyword a name contains; 8 without a keyword *)
BestKeyword(name) ==
    IF KeywordsIn(name) = {} THEN Len(priority_keywords) + 1
    ELSE CHOOSE k \in KeywordsIn(name) : \A h \in KeywordsIn(name) : k <= h

(* C11: once the sheet is chosen, no error was raised; the chosen sheet is a
   sheet of the workbook; without a keyword in any name it is the first
   sheet; otherwise it contains the earliest keyword (in the order table,
   data, emissions, maritime, transport, co2, sheet1) that any name contains,
   and no sheet before it in the workbook contains that keyword. *)
C11_KeywordPriorityThenSheetOrder ==
    /\ pc # "failed"
    /\ pc = "loaded" =>
          LET any == {i \in 1..Len(sheet_names) : KeywordsIn(sheet_names[i]) # {}}
              best == CHOOSE k \in 1..(Len(priority_keywords) + 1) :
                         /\ \E i \in 1..Len(sheet_names) : BestKeyword(sheet_names[i]) = k
                         /\ \A i \in 1..Len(sheet_names) : BestKeyword(sheet_names[i]) >= k
              at == CHOOSE i \in 1..Len(sheet_names) : sheet_names[i] = main_sheet
          IN  /\ \E i \in 1..Len(sheet_names) : sheet_names[i] = main_sheet
              /\ df = SheetTable(main_sheet)
              /\ any = {} => main_sheet = sheet_names[1]
              /\ any # {} =>
                    /\ best \in KeywordsIn(main_sheet)
                    /\ \A i \in 1..(at - 1) : best \notin KeywordsIn(sheet_names[i])

(* the chosen sheet is the last of three: the first contains only "co2", the
   second no keyword, the chosen one "table" *)
C11_Witness ==
    /\ pc = "loaded"
    /\ sheet_names = <<TxtCO2byYear, TxtSummary, TxtTABLE1>>
    /\ main_sheet = TxtTABLE1

-----------------------------------------------------------------------------
(* Claims on the classifier (Spec, ClassifySpec). *)

(* a header that reads as a whole number from 2000 to 2030 *)
HeaderIsYear(label) ==
    /\ IsIntText(Strip(label))
    /\ IntTextValue(Strip(label)) >= 2000
    /\ IntTextValue(Strip(label)) <= 2030

(* the wide test of the claims: 3 columns or more, of which 2 or more after
   the first are headed by a year *)
WideTest(f) ==
    /\ NCols(f) >= 3
    /\ Cardinality({j \in 2..NCols(f) : HeaderIsYear(f.cols[j])}) >= 2

(* the rows among the first 20 whose text holds an indicator *)
IndicatorRows(f) ==
    {i \in 1..NRows(f) :
        /\ i <= 20
        /\ \E ind \in Indicators : Contains(Lower(RowText(f.rows[i])), ind)}

(* C12: a sheet is routed to the Wide Transformer exactly when it has at
   least 3 columns and at least 2 headers after the first read as integers in
   [2000, 2030], also when 2 of its rows hold an indicator of the agency
   test; what the transformer returns is the table of Country, Year,
   Emissions. *)
C12_WideTestDecidesFirst ==
    /\ pc # "loaded" => (route = "wide" <=> WideTest(input))
    /\ (pc = "structured" /\ route = "wide" /\ ~transform_wide_raises(input)) =>
          df.cols = <<TxtCountry, TxtYear, TxtEmissions>>

(* a sheet headed Country, 2020, 2021 with two rows labelled "Maritime
   transport CO2" went through the Wide Transformer *)
C12_Witness ==
    /\ pc = "structured"
    /\ route = "wide"
    /\ Cardinality(IndicatorRows(input)) >= 2
    /\ df.cols = <<TxtCountry, TxtYear, TxtEmissions>>
    /\ NRows(df) = 4

(* C13: a sheet that fails the wide test is routed to the Agency-Report
   Transformer exactly when 2 or more of its first 20 rows hold, in the
   lower-cased text of their cells joined by blanks, one of "reference area",
   "time period", "maritime", "emissions"; a sheet that matches neither test
   leaves _handle_oecd_structure as it came. *)
C13_AgencyTestAndFallback ==
    pc # "loaded" =>
        /\ ~WideTest(input) =>
              (route = "agency" <=> Cardinality(IndicatorRows(input)) >= 2)
        /\ (~WideTest(input) /\ Cardinality(IndicatorRows(input)) < 2) =>
              route = "passthrough"
        /\ (pc = "structured" /\ route = "passthrough") => df = input

(* a sheet of 21 rows routed to the Agency-Report Transformer for its rows 1
   and 20 ("Time", "period" in two cells), row 21 holding the indicator too *)
C13_Witness ==
    /\ pc = "structured"
    /\ route = "agency"
    /\ NRows(input) = 21
    /\ IndicatorRows(input) = {1, 20}
    /\ input.rows[20] = <<StrCell(TxtTime), StrCell(TxtLowerPeriod)>>
    /\ input.rows[21] = input.rows[20]

(* C14: _handle_oecd_structure returns a table for every sheet, and the sheet
   itself, unmodified, when the transformer it chose raised. *)
C14_FailureReturnsOriginal ==
    pc = "structured" =>
        /\ failure = NoFailure
        /\ Len(df.dt) = NCols(df)
        /\ \A i \in 1..NRows(df) : Len(df.rows[i]) = NCols(df)
        /\ (route = "wide" /\ transform_wide_raises(input)) => df = input

(* a wide sheet with a column headed Emissions and two rows came back as it
   was *)
C14_Witness ==
    /\ pc = "structured"
    /\ route = "wide"
    /\ HasColumn(input, TxtEmissions)
    /\ NRows(input) = 2
    /\ df = input

-----------------------------------------------------------------------------
(* Claims on the run as a whole (Spec). *)

(* C15, as claimed: a run on a sheet that was read fails only in the
   Validator, for missing required fields or for zero rows; the stages before
   it never end the run. *)
C15_OnlyValidatorFails ==
    pc = "failed" => failure.error \in {"missing_columns", "no_rows"}

(* a long sheet of three columns that the Column Mapper names Country, Year,
   Emissions, in this order *)
LongSheet ==
    /\ route = "passthrough"
    /\ NCols(input) = 3
    /\ MappedName(input.cols[1]) = TxtCountry
    /\ MappedName(input.cols[2]) = TxtYear
    /\ MappedName(input.cols[3]) = TxtEmissions

(* the fields of row i of such a sheet as the cleaners read them: the trimmed
   text of the country, the year (the cell itself in a column of integers,
   else what the period parser makes of it), the number *)
SourceCountry(i) == Strip(StrOf(input.rows[i][1]))

SourceYear(i) ==
    IF input.dt[2] = "int64" THEN input.rows[i][2] ELSE ParsePeriodValue(input.rows[i][2])

SourceEmissions(i) == ToNumeric(input.rows[i][3])

(* the rows that are valid records: a country that is not empty nor "nan", a
   year that parses, a number that is not negative *)
ValidSourceRows ==
    {i \in 1..NRows(input) :
        /\ SourceCountry(i) # <<>>
        /\ SourceCountry(i) # <<"n", "a", "n">>
        /\ ~IsNull(SourceYear(i))
        /\ ~IsNull(SourceEmissions(i))
        /\ SourceEmissions(i).v >= 0}

(* C16: the table returned for a long sheet has one record for each valid
   row of the sheet: k valid rows with the same country and the same year are
   k records with that country and year, none merged, summed or removed. *)
C16_DuplicatesKept ==
    (pc = "returned" /\ LongSheet) =>
        /\ NRows(df) = Cardinality(ValidSourceRows)
        /\ \A i \in ValidSourceRows :
              Cardinality({r \in 1..NRows(df) :
                              /\ CountryOf(df, r) = SourceCountry(i)
                              /\ YearOf(df, r) = SourceYear(i).v})
              = Cardinality({h \in ValidSourceRows :
                              /\ SourceCountry(h) = SourceCountry(i)
                              /\ SourceYear(h).v = SourceYear(i).v})

(* the same valid row twice in the sheet, two equal records in the table *)
C16_Witness ==
    /\ pc = "returned"
    /\ LongSheet
    /\ NRows(input) = 2
    /\ input.rows[1] = input.rows[2]
    /\ NRows(df) = 2
    /\ df.rows[1] = df.rows[2]

(* C17: a returned table has the columns Country, Year and Emissions, each
   once, and every record has a value in each: a text, a whole number, a
   number. *)
C17_RequiredFieldsPresent ==
    pc = "returned" =>
        /\ \A k \in 1..Len(required_columns) :
              Cardinality(Positions(df, required_columns[k])) = 1
        /\ \A i \in 1..NRows(df) :
              /\ df.rows[i][Pos(df, TxtCountry)].k = "str"
              /\ df.rows[i][Pos(df, TxtYear)].k = "int"
              /\ df.rows[i][Pos(df, TxtEmissions)].k \in {"int", "float"}

(* a table returned for a long sheet of two rows, one of them without a
   year *)
C17_Witness ==
    /\ pc = "returned"
    /\ route = "passthrough"
    /\ NRows(input) = 2
    /\ \E i \in 1..2 : IsNull(input.rows[i][2])
    /\ NRows(df) = 1

-----------------------------------------------------------------------------
(* Claims on the summaries (StatsSpec); input is the table they are called
   with. *)

(* the records of a country *)
RecordsOf(c) == {i \in 1..NRows(input) : CountryOf(input, i) = c}

(* the sum of the Emissions of a set of records *)
RECURSIVE EmissionsSum(_)
EmissionsSum(S) ==
    IF S = {} THEN 0
    ELSE LET i == CHOOSE i \in S : TRUE
         IN  EmissionsOf(input, i) + EmissionsSum(S \ {i})

(* C18: for a table with records get_summary_stats returns the number of
   records, the number of distinct countries, the least and the greatest
   year, the sum of the emissions, and as avg_emissions_per_country the sum
   divided by the number of countries (the mean of the sums per country);
   the table is as it was. *)
C18_SummaryStats ==
    stats.computed =>
        LET countries == {CountryOf(input, i) : i \in 1..NRows(input)}
            years == {YearOf(input, i) : i \in 1..NRows(input)}
            avg == stats.avg_emissions_per_country
        IN  /\ ~stats.empty
            /\ stats.total_records = NRows(input)
            /\ stats.countries_count = Cardinality(countries)
            /\ stats.year_range[1].v \in years
            /\ stats.year_range[2].v \in years
            /\ \A y \in years : stats.year_range[1].v <= y /\ y <= stats.year_range[2].v
            /\ stats.total_emissions = EmissionsSum(1..NRows(input))
            /\ avg.den = Cardinality(countries)
            /\ avg.num * stats.countries_count = stats.total_emissions * avg.den
            /\ df = input

(* the statistics of a table of three records of two countries over 2019 to
   2021 with emissions *)
C18_Witness ==
    /\ stats.computed
    /\ stats.total_records = 3
    /\ stats.countries_count = 2
    /\ stats.year_range = <<IntCell(2019), IntCell(2021)>>
    /\ stats.total_emissions = 45

(* the entries of calculate_trends for a country *)
EntriesOf(c) == {k \in 1..Len(trends.entries) : trends.entries[k].Country = c}

(* C19, as claimed: calculate_trends returns an entry for every distinct
   country of the table. *)
C19_EntryForEveryCountry ==
    trends.computed =>
        \A i \in 1..NRows(input) : EntriesOf(CountryOf(input, i)) # {}

(* C19, amended: calculate_trends returns one entry for every country with
   two or more records and none for a country with one; the entry gives the
   first and the last year of the country, the emissions of a record of the
   first year and of a record of the last, the percentage
   (last - first) / first * 100, or 0 when the first value is 0, and one of
   the three direction labels. *)
C19_EntryPerCountryWithTwoRecords ==
    trends.computed =>
        /\ \A i \in 1..NRows(input) :
              LET c == CountryOf(input, i)
              IN  Cardinality(EntriesOf(c)) =
                      IF Cardinality(RecordsOf(c)) >= 2 THEN 1 ELSE 0
        /\ \A k \in 1..Len(trends.entries) :
              LET e == trends.entries[k]
                  recs == RecordsOf(e.Country)
              IN  /\ recs # {}
                  /\ \A i \in recs :
                        e.First_Year <= YearOf(input, i) /\ YearOf(input, i) <= e.Last_Year
                  /\ \E i \in recs :
                        /\ YearOf(input, i) = e.First_Year
                        /\ EmissionsOf(input, i) = e.First_Year_Emissions
                  /\ \E i \in recs :
                        /\ YearOf(input, i) = e.Last_Year
                        /\ EmissionsOf(input, i) = e.Last_Year_Emissions
                  /\ e.Trend_Percentage.den > 0
                  /\ IF e.First_Year_Emissions > 0
                     THEN e.Trend_Percentage.num * e.First_Year_Emissions =
                              (e.Last_Year_Emissions - e.First_Year_Emissions) * 100
                              * e.Trend_Percentage.den
                     ELSE e.Trend_Percentage.num = 0
                  /\ e.Trend_Direction \in {"Increasing", "Decreasing", "Stable"}
        /\ df = input

(* the trends of a table with one record of FRA and two of USA, from 10 in
   2019 to 25 in 2021: one entry, for USA, of 150 percent *)
C19_Witness ==
    /\ trends.computed
    /\ Cardinality(RecordsOf(TxtFRA)) = 1
    /\ Cardinality(RecordsOf(TxtUSA)) = 2
    /\ Len(trends.entries) = 1
    /\ trends.entries[1].Country = TxtUSA
    /\ trends.entries[1].First_Year = 2019
    /\ trends.entries[1].Last_Year = 2021
    /\ trends.entries[1].Trend_Percentage = [num |-> 1500, den |-> 10]

(* C20: in every entry the label is Stable exactly when the percentage is
   zero, Increasing exactly when it is above zero, Decreasing exactly when it
   is below. *)
C20_DirectionIsSignOfPercentage ==
    trends.computed =>
        \A k \in 1..Len(trends.entries) :
            LET e == trends.entries[k]
                sign == e.Trend_Percentage.num * e.Trend_Percentage.den
            IN  /\ e.Trend_Direction = "Stable" <=> sign = 0
                /\ e.Trend_Direction = "Increasing" <=> sign > 0
                /\ e.Trend_Direction = "Decreasing" <=> sign < 0

(* an entry of percentage zero for emissions that went from 0 to 25, labelled
   Stable *)
C20_Witness ==
    /\ trends.computed
    /\ \E k \in 1..Len(trends.entries) :
          /\ trends.entries[k].First_Year_Emissions = 0
          /\ trends.entries[k].Last_Year_Emissions = 25
          /\ trends.entries[k].Trend_Percentage.num = 0
          /\ trends.entries[k].Trend_Direction = "Stable"

-----------------------------------------------------------------------------
(* Claims on the transformers, the Column Mapper and the cleaners. *)

(* the value of a numeric cell *)
NumericValue(c) == IF c.k = "str" THEN IntTextValue(Strip(c.s)) ELSE c.v

(* the observations of a wide sheet: a row with a label that is not empty
   nor "nan" once trimmed, and a year column with a numeric cell in it *)
WideObservations ==
    {o \in (1..NRows(input)) \X (1..Len(YearCols(input))) :
        /\ WideLabel(o[1]) # <<>>
        /\ WideLabel(o[1]) # <<"n", "a", "n">>
        /\ NumericCell(input.rows[o[1]][YearCols(input)[o[2]]])}

(* C21: the Wide Transformer, where it returns, gives one record for each
   observation of the sheet and no other: for every (trimmed label, year,
   value) the records are as many as the observations; so Country, 2020,
   2021 over (USA, 10, 20) and (Fr, nan, 5) gives (USA, 2020, 10),
   (USA, 2021, 20), (Fr, 2021, 5). *)
C21_WideKeepsObservations ==
    (pc = "structured" /\ route = "wide" /\ ~transform_wide_raises(input)) =>
        /\ NRows(df) = Cardinality(WideObservations)
        /\ \A o \in WideObservations :
              LET label == WideLabel(o[1])
                  year == HeaderYear(YearCols(input)[o[2]])
                  value == NumericValue(input.rows[o[1]][YearCols(input)[o[2]]])
              IN  Cardinality({r \in 1..NRows(df) :
                                  /\ CountryOf(df, r) = label
                                  /\ YearOf(df, r) = year
                                  /\ EmissionsOf(df, r) = value})
                  = Cardinality({q \in WideObservations :
                                  /\ WideLabel(q[1]) = label
                                  /\ HeaderYear(YearCols(input)[q[2]]) = year
                                  /\ NumericValue(input.rows[q[1]][YearCols(input)[q[2]]])
                                        = value})

(* the sheet Country, 2020, 2021 over (USA, 10, 20) and (" Fr ", nan, 5) has
   become the three records (USA, 2020, 10), (USA, 2021, 20), (Fr, 2021, 5) *)
C21_Witness ==
    /\ pc = "structured"
    /\ route = "wide"
    /\ input.cols = <<TxtCountry, Txt2020, Txt2021>>
    /\ NRows(input) = 2
    /\ input.rows[1][1] = StrCell(TxtUSA)
    /\ IsNull(input.rows[2][2])
    /\ NRows(df) = 3
    /\ {<<CountryOf(df, r), YearOf(df, r), EmissionsOf(df, r)>> : r \in 1..NRows(df)}
           = {<<TxtUSA, 2020, 10>>, <<TxtUSA, 2021, 20>>, <<<<"F", "r">>, 2021, 5>>}

(* the number of cells of row i of the sheet that hold a value *)
CellsIn(i) == Cardinality({j \in 1..NCols(input) : ~IsNull(input.rows[i][j])})

(* a cell holds one of the texts 2019, 2020, 2021, 2022 *)
HoldsYearToken(c) ==
    /\ ~IsNull(c)
    /\ \E y \in {<<"2", "0", "1", "9">>, <<"2", "0", "2", "0">>,
                  <<"2", "0", "2", "1">>, <<"2", "0", "2", "2">>} : Contains(StrOf(c), y)

(* the header row of the claim: the first of the first 15 rows with more
   than 5 cells and a year token; 0 without one *)
HeaderRow ==
    LET cand == {i \in 1..NRows(input) :
                    /\ i <= 15
                    /\ CellsIn(i) > 5
                    /\ \E j \in 1..NCols(input) : HoldsYearToken(input.rows[i][j])}
    IN  IF cand = {} THEN 0 ELSE CHOOSE i \in cand : \A h \in cand : i <= h

(* the rows that give records: from 2 rows after the header row on, with
   more than 5 cells *)
DataRows == {i \in 1..NRows(input) : HeaderRow # 0 /\ i >= HeaderRow + 2 /\ CellsIn(i) > 5}

(* the numeric cells of a row after its first column *)
NumericCellsIn(i) ==
    Cardinality({j \in 2..NCols(input) : NumericCell(input.rows[i][j])})

RECURSIVE NumericCellsOver(_)
NumericCellsOver(S) ==
    IF S = {} THEN 0
    ELSE LET i == CHOOSE i \in S : TRUE
         IN  NumericCellsIn(i) + NumericCellsOver(S \ {i})

(* C22: on a sheet routed to the Agency-Report Transformer the records come
   from the rows that lie 2 or more below the header row (the first of the
   first 15 rows with more than 5 cells and one of 2019 to 2022 in a cell)
   and have more than 5 cells, one record per numeric cell; their period
   labels are labels of the header row; without such a row or such cells the
   sheet comes back as it was. *)
C22_HeaderRowAndDataRows ==
    (pc = "structured" /\ route = "agency") =>
        IF NumericCellsOver(DataRows) = 0 THEN df = input
        ELSE /\ HasColumn(df, TxtOriginalTimePeriod)
             /\ NRows(df) = NumericCellsOver(DataRows)
             /\ \A r \in 1..NRows(df) :
                   /\ \E j \in 2..NCols(input) :
                         PeriodOf(df, r) = StrOf(input.rows[HeaderRow][j])
                   /\ \E i \in DataRows : CountryOf(df, r) = StripIndent(Strip(StrOf(input.rows[i][1])))

(* a report of 14 title rows, the labels in row 15, then a country row right
   below, which gives nothing, and a second one, which gives six records *)
C22_Witness ==
    /\ pc = "structured"
    /\ route = "agency"
    /\ HeaderRow = 15
    /\ NRows(input) = 17
    /\ input.rows[16][1] = StrCell(TxtUSA)
    /\ input.rows[17][1] = StrCell(TxtUSA)
    /\ NRows(df) = 6

(* C23, as claimed: every record of the Agency-Report Transformer has the
   period label of a column of the header row and, as Emissions, the number
   in that column of a data row with the record's country; a missing cell
   gives no record and moves no value to another period. *)
C23_ValueFromSameColumn ==
    (pc = "structured" /\ AgencyRecords) =>
        \A r \in 1..NRows(df) :
            \E i \in DataRows : \E j \in 2..NCols(input) :
                /\ CountryOf(df, r) = StripIndent(Strip(StrOf(input.rows[i][1])))
                /\ PeriodOf(df, r) = StrOf(input.rows[HeaderRow][j])
                /\ NumericCell(input.rows[i][j])
                /\ EmissionsOf(df, r) = NumericValue(input.rows[i][j])

(* the four rules of the Column Mapper in the order of the claim, and the
   rules a header matches *)
MapperRules ==
    << [exact |-> TRUE,  syns |-> CountrySynonyms,   name |-> TxtCountry],
       [exact |-> TRUE,  syns |-> YearSynonyms,      name |-> TxtYear],
       [exact |-> TRUE,  syns |-> EmissionsSynonyms, name |-> TxtEmissions],
       [exact |-> FALSE, syns |-> EmissionsSynonyms, name |-> TxtEmissions] >>

RuleMatches(k, col) ==
    LET rule == MapperRules[k]
        text == Lower(Strip(col))
    IN  \E i \in 1..Len(rule.syns) :
            IF rule.exact THEN Lower(rule.syns[i]) = text
            ELSE Contains(text, Lower(rule.syns[i]))

RulesMatching(col) == {k \in 1..Len(MapperRules) : RuleMatches(k, col)}

NameByFirstRule(col) ==
    IF RulesMatching(col) = {} THEN col
    ELSE MapperRules[CHOOSE k \in RulesMatching(col) : \A m \in RulesMatching(col) : k <= m].name

(* C24: when the cleaner maps the columns (the table lacks a required column),
   the table it leaves has one column for each column that was not wholly
   empty, in the same order, named by the first rule the header matches
   (exact country, exact year, exact emissions, emissions as a substring), and
   by its own header when no rule matches. *)
C24_FirstMatchingRuleWins ==
    [][(pc = "structured" /\ ~HasRequired(DropEmpty(df))) =>
           LET f1 == DropEmpty(df)
           IN  /\ NCols(df') = NCols(f1)
               /\ \A j \in 1..NCols(f1) : df'.cols[j] = NameByFirstRule(f1.cols[j])]_vars

(* a header matched by the substring rule only, beside two exact matches *)
C24_Witness ==
    /\ pc = "cleaned"
    /\ input.cols = <<TxtRegion, TxtPeriod, TxtMtCO2Total>>
    /\ RulesMatching(TxtMtCO2Total) = {4}
    /\ df.cols = <<TxtCountry, TxtYear, TxtEmissions>>

-----------------------------------------------------------------------------
(* Claims on the Year cleaner *)

AllDigits(t, S) == \A i \in S : IsDigit(t[i])

(* the written forms of a period: YYYY-MM, YYYY-Mxx, YYYYMxx, YYYY *)
IsYearDashMonth(t) == Len(t) = 7 /\ AllDigits(t, {1, 2, 3, 4, 6, 7}) /\ t[5] = "-"

IsYearDashM(t) == Len(t) = 8 /\ AllDigits(t, {1, 2, 3, 4, 7, 8}) /\ t[5] = "-" /\ t[6] = "M"

IsYearM(t) == Len(t) = 7 /\ AllDigits(t, {1, 2, 3, 4, 6, 7}) /\ t[5] = "M"

IsPlainYear(t) == Len(t) = 4 /\ AllDigits(t, {1, 2, 3, 4})

IsPeriodText(c) ==
    c.k = "str" /\ (IsYearDashMonth(c.s) \/ IsYearDashM(c.s) \/ IsYearM(c.s) \/ IsPlainYear(c.s))

(* nothing a year could be parsed from: no cell, or a text without a digit *)
IsNoPeriod(c) == IsNull(c) \/ (c.k = "str" /\ \A i \in 1..Len(c.s) : ~IsDigit(c.s[i]))

(* a long sheet Reference area, TIME_PERIOD, OBS_VALUE whose periods are
   texts of the written forms or nothing, with a country and a value that is
   not negative in every row *)
PeriodSheet ==
    /\ route = "passthrough"
    /\ input.cols = <<TxtReferenceArea, TxtTimePeriod, TxtObsValue>>
    /\ input.dt[2] = "object"
    /\ \A i \in 1..NRows(input) :
          /\ input.rows[i][1].k = "str" /\ SourceCountry(i) \notin {<<>>, <<"n", "a", "n">>}
          /\ IsPeriodText(input.rows[i][2]) \/ IsNoPeriod(input.rows[i][2])
          /\ input.rows[i][3].k = "int" /\ input.rows[i][3].v >= 0

(* the year the claim gives a period text: its first four characters *)
WrittenYear(i) == DigitsValue(SubSeq(input.rows[i][2].s, 1, 4))

PeriodTextRows == {i \in 1..NRows(input) : IsPeriodText(input.rows[i][2])}

(* C25: in the cleaned table of such a sheet the Year column is of integer
   type, there is one record for each row whose period is of a written form,
   with Year YYYY, and no record for a row from whose period no year can be
   parsed. *)
C25_PeriodFormsParsed ==
    (pc \in {"cleaned", "returned"} /\ PeriodSheet /\ HasColumn(df, TxtYear)) =>
        /\ df.dt[Pos(df, TxtYear)] = "int64"
        /\ \A r \in 1..NRows(df) : df.rows[r][Pos(df, TxtYear)].k = "int"
        /\ NRows(df) = Cardinality(PeriodTextRows)
        /\ \A i \in PeriodTextRows :
              Cardinality({r \in 1..NRows(df) : YearOf(df, r) = WrittenYear(i)})
              = Cardinality({h \in PeriodTextRows : WrittenYear(h) = WrittenYear(i)})

(* the periods "2020-01", "2020M01" and "x": two records of 2020 returned *)
C25_Witness ==
    /\ pc = "returned"
    /\ PeriodSheet
    /\ NRows(input) = 3
    /\ input.rows[1][2] = StrCell(Txt2020Dash01)
    /\ input.rows[2][2] = StrCell(Txt2020M01)
    /\ input.rows[3][2] = StrCell(TxtX)
    /\ NRows(df) = 2
    /\ \A r \in 1..2 : YearOf(df, r) = 2020

(* C26, as claimed: once the cleaner has prepared the columns, each of
   Country, Year and Emissions labels at most one column of the table,
   whatever the headers of the sheet. *)
C26_OneColumnPerCanonicalName ==
    (pc \notin {"loaded", "structured"}) =>
        \A k \in 1..Len(required_columns) :
            Cardinality(Positions(df, required_columns[k])) <= 1

(* C27, as claimed: when the Year column of a long sheet holds whole-number
   years stored as floating point (a Year cell is missing), every record of
   the cleaned table has the Year of a row of the sheet. *)
C27_FloatYearsPreserved ==
    (/\ pc \in {"cleaned", "returned"}
     /\ LongSheet
     /\ input.dt[2] = "float64"
     /\ \E i \in 1..NRows(input) : input.rows[i][2].k = "float"
     /\ HasColumn(df, TxtYear)) =>
        \A r \in 1..NRows(df) :
            \E i \in 1..NRows(input) :
                /\ input.rows[i][2].k = "float"
                /\ YearOf(df, r) = input.rows[i][2].v

(* C28, as claimed: the direction label of every entry of calculate_trends
   is the sign of last-year emissions minus first-year emissions: Increasing
   when the last value is greater, Decreasing when it is smaller, Stable when
   they are equal, a first value of 0 included. *)
C28_DirectionIsSignOfDifference ==
    trends.computed =>
        \A k \in 1..Len(trends.entries) :
            LET e == trends.entries[k]
            IN  e.Trend_Direction =
                    IF e.Last_Year_Emissions > e.First_Year_Emissions THEN "Increasing"
                    ELSE IF e.Last_Year_Emissions < e.First_Year_Emissions THEN "Decreasing"
                    ELSE "Stable"

(* C29: when the Validator has judged a cleaned table that lacks a required
   column and has no row, the failure is the one for missing columns, with
   the columns that are missing, and not the one for an empty dataset. *)
C29_SchemaBeforeEmptiness ==
    (/\ pc \in {"returned", "failed"}
     /\ failure.error # "exception"
     /\ ~HasRequired(df)
     /\ NRows(df) = 0)
    => /\ pc = "failed"
       /\ failure.error = "missing_columns"
       /\ failure.missing = MissingColumns(df)

(* a sheet headed Country, Year, Notes whose rows all lack the country:
   cleaned to no row and no Emissions column, failed for the missing column *)
C29_Witness ==
    /\ pc = "failed"
    /\ failure.error = "missing_columns"
    /\ input.cols = <<TxtCountry, TxtYear, TxtNotes>>
    /\ NRows(input) > 0
    /\ df.cols = <<TxtCountry, TxtYear, TxtNotes>>
    /\ NRows(df) = 0
    /\ failure.missing = <<TxtEmissions>>
====
